---- MODULE Spec2Model ----
(***************************************************************************)
(* Adaptive assessment controller of the Questioner repository:            *)
(* models.py (difficulty and confidence engines), question_flow.py         *)
(* (QuestionFlowManager), assessment_flow.py (AssessmentFlowManager).      *)
(*                                                                         *)
(* Numbers.  Python floats are carried as fixed-point integers:            *)
(*   - difficulty, adjustments, impacts, calibrated confidence, quality    *)
(*     score and progress in units of 1/S (S = 100000);                    *)
(*   - a confidence in half-tenths: 2*k is the decimal k/10, 2*k+1 is the  *)
(*     double just above it (0.8 - 0.1 evaluates to 0.7000000000000001,    *)
(*     which passes "> 0.7");                                              *)
(*   - response times in whole seconds; the correlation in thousandths.    *)
(***************************************************************************)
EXTENDS Integers, Sequences, FiniteSets, TLC

VARIABLES
    engine,                     \* a bare ImprovedAdaptiveDifficultyEngine (unit-level use) or None
    domain_list,                \* AssessmentSession.domain_list: estimated_difficulty per domain
    domain_assessments,         \* AssessmentSession.domain_assessments
    current_domain_index,       \* AssessmentSession.current_domain_index
    overall_score,              \* AssessmentSession.overall_score, in 1/S points
    current_domain_assessment,  \* QuestionFlowManager.current_domain_assessment (a domain id or None)
    difficulty_engine,          \* QuestionFlowManager.difficulty_engine
    confidence_metrics,         \* QuestionFlowManager.confidence_metrics
    current_question,           \* QuestionFlowManager.current_question
    question_start_time,        \* QuestionFlowManager.question_start_time
    domain_progress,            \* QuestionFlowManager.domain_progress
    assessment_app_instance,    \* KnowledgeAssessmentApp: its current_question, and its
                                \* session's total_questions and total_correct
    learning_session,           \* LevelFlowManager.current_session (a LearningSession or None)
    last,                       \* the last call: its name, arguments and what it returned
    budget                      \* how many calls of each kind have been made

vars == <<engine, domain_list, domain_assessments, current_domain_index, overall_score,
          current_domain_assessment, difficulty_engine, confidence_metrics,
          current_question, question_start_time, domain_progress,
          assessment_app_instance, learning_session, last, budget>>

\* Python's None, and an object reference: the empty and the one-element tuple
None == <<>>

Some(x) == <<x>>

The(o) == o[1]

\* ---------------------------------------------------------------- numbers

S == 100 * 1000

Min(a, b) == IF a < b THEN a ELSE b

Max(a, b) == IF a > b THEN a ELSE b

Abs(a) == IF a < 0 THEN 0 - a ELSE a

\* Python's int() on a float: truncation toward zero.
Trunc(x) == IF x >= 0 THEN x \div S ELSE 0 - ((0 - x) \div S)

\* Float product and quotient by a decimal factor num/den, rounded toward zero.
MulDiv(x, num, den) == IF x >= 0 THEN (x * num) \div den ELSE 0 - (((0 - x) * num) \div den)

\* sum of the first n elements
RECURSIVE SumTo(_, _)
SumTo(s, n) == IF n = 0 THEN 0 ELSE s[n] + SumTo(s, n - 1)

SumSeq(s) == SumTo(s, Len(s))

CountTrue(s) == Cardinality({i \in 1..Len(s) : s[i]})

\* a capped list that refuses the new entry when it is full
AppendCappedNewest(s, x, cap) == IF Len(s) + 1 > cap THEN s ELSE Append(s, x)

\* list.append followed by pop(0) when the list is longer than its capacity.
AppendCapped(s, x, cap) == IF Len(s) + 1 > cap THEN Tail(Append(s, x)) ELSE Append(s, x)

RECURSIVE SqrtSearch(_, _, _)
SqrtSearch(n, lo, hi) ==
    IF lo >= hi THEN lo
    ELSE LET mid == (lo + hi + 1) \div 2
         IN IF mid * mid <= n THEN SqrtSearch(n, mid, hi) ELSE SqrtSearch(n, lo, mid - 1)

\* floor(sqrt(n)) for 0 <= n < 2^31.
ISqrt(n) == SqrtSearch(n, 0, Min(n, 46340))

\* confidence encoding
ConfTenths(c) == c \div 2

\* round(confidence, 1): the calibration bin, in tenths.
BinKey(c) == ConfTenths(c)

\* the float value of a confidence, in 1/S
ConfValue(c) == ConfTenths(c) * (S \div 10)

\* ------------------------------------------- ConfidenceCalibrationEngine

\* how many of the pairs fall in bin k, and how many of those are correct
BinCount(pairs, k) == Cardinality({i \in 1..Len(pairs) : BinKey(pairs[i][1]) = k})

BinCorrect(pairs, k) ==
    Cardinality({i \in 1..Len(pairs) : BinKey(pairs[i][1]) = k /\ pairs[i][2]})

Bins == 0..10

\* A bin enters the curve with at least three samples.
MinSamplesPerBin == 3

\* Below ten samples the curve is left as it was.
MinCalibrationSamples == 10

\* calculate_calibration_curve without the return of line 85
calculate_calibration_curve_early(pairs, curve) ==
    [k \in {b \in Bins : BinCount(pairs, b) >= MinSamplesPerBin} |->
        (S * BinCorrect(pairs, k)) \div BinCount(pairs, k)]

calculate_calibration_curve(pairs, curve) ==
    IF Len(pairs) < MinCalibrationSamples THEN curve
    ELSE [k \in {b \in Bins : BinCount(pairs, b) >= MinSamplesPerBin} |->
              (S * BinCorrect(pairs, k)) \div BinCount(pairs, k)]

CalibrationHistorySize == 100

update_calibration(cal, confidence, is_correct) ==
    LET pairs == AppendCapped(cal.confidence_accuracy_pairs, <<confidence, is_correct>>,
                              CalibrationHistorySize)
    IN [confidence_accuracy_pairs |-> pairs,
        calibration_curve |-> calculate_calibration_curve(pairs, cal.calibration_curve)]

SetMin(K) == CHOOSE k \in K : \A j \in K : k <= j

SetMax(K) == CHOOSE k \in K : \A j \in K : k >= j

interpolate_confidence(curve, confidence) ==
    LET K == DOMAIN curve
    IN IF K = {} THEN ConfValue(confidence)
       ELSE IF confidence <= 2 * SetMin(K) THEN curve[SetMin(K)]
       ELSE IF confidence >= 2 * SetMax(K) THEN curve[SetMax(K)]
       ELSE LET x1 == SetMax({k \in K : 2 * k <= confidence})
                x2 == SetMin({k \in K : 2 * k >= confidence})
                y1 == curve[x1]
                y2 == curve[x2]
            IN y1 + MulDiv(y2 - y1, ConfTenths(confidence) - x1, x2 - x1)

get_calibrated_confidence(cal, raw_confidence) ==
    IF BinKey(raw_confidence) \in DOMAIN cal.calibration_curve
    THEN cal.calibration_curve[BinKey(raw_confidence)]
    ELSE interpolate_confidence(cal.calibration_curve, raw_confidence)

NewCalibrationEngine ==
    [confidence_accuracy_pairs |-> <<>>, calibration_curve |-> <<>>]

\* ---------------------------------------------- EnhancedConfidenceEngine

SumTenths(x) == SumSeq([i \in 1..Len(x) |-> ConfTenths(x[i])])

SumSquares(x) == SumSeq([i \in 1..Len(x) |-> ConfTenths(x[i]) * ConfTenths(x[i])])

SumProducts(x, y) == SumSeq([i \in 1..Len(x) |-> ConfTenths(x[i]) * y[i]])

\* n*sum_x2 - sum_x*sum_x and n*sum_y2 - sum_y*sum_y, with x in tenths and y in {0, 1}
VarTermX(x) == Len(x) * SumSquares(x) - SumTenths(x) * SumTenths(x)

VarTermY(y) == Len(y) * SumSeq(y) - SumSeq(y) * SumSeq(y)

\* The digits kept under the square root, so that the radicand stays below 2^31.
RootScale(p) ==
    IF p < 2000 THEN 1000 ELSE IF p < 200000 THEN 100 ELSE IF p < 20000000 THEN 10 ELSE 1

\* With every x the same decimal k/10, n*sum_x2 - sum_x*sum_x is rounding noise in
\* double arithmetic; these are the (k, n) for which the noise is negative, so that
\* math.sqrt raises ValueError as soon as the y are not all equal.
NegativeNoise ==
    ({1, 2, 4, 8} \X ({24, 26} \cup (28..40)))
    \cup ({3, 6} \X (30..50))
    \cup ({7} \X ({10, 11} \cup (48..50)))
    \cup {<<9, 12>>}

AllEqual(x) == \A i \in 1..Len(x) : x[i] = x[1]

\* math.sqrt of a negative radicand in calculate_correlation
correlation_raises(x, y) ==
    /\ Len(x) >= 2
    /\ AllEqual(x)
    /\ x[1] % 2 = 0
    /\ VarTermY(y) > 0
    /\ <<ConfTenths(x[1]), Len(x)>> \in NegativeNoise

\* Pearson correlation coefficient, in thousandths
calculate_correlation(x, y) ==
    IF Len(x) # Len(y) \/ Len(x) < 2 THEN 0
    ELSE LET n == Len(x)
             numerator == n * SumProducts(x, y) - SumTenths(x) * SumSeq(y)
             p == VarTermX(x) * VarTermY(y)
             m == RootScale(p)
             denominator == ISqrt(p * m * m)
         IN IF p = 0 \/ denominator = 0 THEN 0
            ELSE LET r == Min(1000, (1000 * Abs(numerator) * m) \div denominator)
                 IN IF numerator < 0 THEN 0 - r ELSE r

CorrelationHistorySize == 50

MinCorrelationSamples == 10

Float(b) == IF b THEN 1 ELSE 0

\* A method that changes its object is modelled by what the call leaves behind:
\* `self` the object afterwards, `raises` whether the call ended in an exception,
\* and what it returns.
update_correlation(ce, confidence, is_correct) ==
    LET ch == AppendCapped(ce.confidence_history, confidence, CorrelationHistorySize)
        ah == AppendCapped(ce.accuracy_history, Float(is_correct), CorrelationHistorySize)
        raises == Len(ch) >= MinCorrelationSamples /\ correlation_raises(ch, ah)
    IN [raises |-> raises,
        self |-> [ce EXCEPT !.confidence_history = ch,
                            !.accuracy_history = ah,
                            !.confidence_accuracy_correlation =
                                IF Len(ch) >= MinCorrelationSamples /\ ~raises
                                THEN calculate_correlation(ch, ah)
                                ELSE @]]

\* difficulty is the int() the caller passes; the result is in 1/S
calculate_comprehensive_impact(ce, calibrated_confidence, is_correct, response_time, difficulty, raw_confidence) ==
    LET base_impact == IF is_correct THEN calibrated_confidence ELSE 0 - calibrated_confidence
        samples == Min(50, Len(ce.calibration_engine.confidence_accuracy_pairs))
        correlation_weight == Abs(ce.confidence_accuracy_correlation)
        expected_time == 3000 + 30 * difficulty
        time_consistency_weight ==
            IF is_correct /\ response_time * 1000 < 8 * expected_time /\ raw_confidence > 14
            THEN 12
            ELSE IF ~is_correct /\ response_time * 1000 > 12 * expected_time
                    /\ raw_confidence < 8
            THEN 11
            ELSE 10
        difficulty_adaptability_weight ==
            IF (difficulty > 70 /\ raw_confidence > 16) \/ (difficulty < 30 /\ raw_confidence < 6)
            THEN 115
            ELSE 100
    IN MulDiv(MulDiv(MulDiv(MulDiv(base_impact, 1000 + 6 * samples, 1000),
                            5000 + correlation_weight, 5000),
                     time_consistency_weight, 10),
              difficulty_adaptability_weight, 100)

\* lines 146-148: what calculate_confidence_impact returns, `correlated` being the
\* call of update_correlation in line 144
comprehensive_impact_after(correlated, calibrated_confidence, is_correct, response_time, difficulty, confidence) ==
    [raises |-> correlated.raises,
     self |-> correlated.self,
     returns |-> calculate_comprehensive_impact(
                     correlated.self, calibrated_confidence, is_correct, response_time,
                     difficulty, confidence)]

calculate_confidence_impact(ce, confidence, is_correct, response_time, difficulty) ==
    comprehensive_impact_after(
        update_correlation(
            [ce EXCEPT !.calibration_engine = update_calibration(@, confidence, is_correct)],
            confidence, is_correct),
        get_calibrated_confidence(ce.calibration_engine, confidence),
        is_correct, response_time, difficulty, confidence)

NewConfidenceEngine ==
    [calibration_engine |-> NewCalibrationEngine,
     confidence_history |-> <<>>,
     accuracy_history |-> <<>>,
     confidence_accuracy_correlation |-> 0]

\* --------------------------------------- ImprovedAdaptiveDifficultyEngine

PerformanceHistorySize == 10

MinDifficulty == 1

MaxDifficulty == 100

MaxDifficultyChange == 15

NewEngine(initial_difficulty) ==
    [current_difficulty |-> initial_difficulty * S,
     recent_performance |-> <<>>,
     recent_response_times |-> <<>>,
     consecutive_correct |-> 0,
     consecutive_incorrect |-> 0,
     confidence_engine |-> NewConfidenceEngine]

\* 30 + (current_difficulty / 100) * 30, in 1/S seconds
ExpectedTime(current_difficulty) == 30 * S + (3 * current_difficulty) \div 10

\* calculate_time_impact without the bonus of a fast correct answer
calculate_time_impact_unrewarded(e, response_time, is_correct) ==
    LET expected_time == ExpectedTime(e.current_difficulty)
    IN IF is_correct
       THEN IF response_time * S * 10 > 15 * expected_time THEN 0 - S ELSE 0
       ELSE IF response_time * S * 10 < 7 * expected_time THEN 0 - 2 * S
            ELSE IF response_time * S * 10 > 15 * expected_time THEN S
            ELSE 0

calculate_time_impact(e, response_time, is_correct) ==
    LET expected_time == ExpectedTime(e.current_difficulty)
        fast == response_time * S * 10 < 7 * expected_time
        slow == response_time * S * 10 > 15 * expected_time
    IN IF is_correct
       THEN (IF fast THEN 2 * S ELSE IF slow THEN 0 - S ELSE 0)
       ELSE (IF fast THEN 0 - 2 * S ELSE IF slow THEN S ELSE 0)

Changes(perf) == Cardinality({i \in 2..Len(perf) : perf[i] # perf[i - 1]})

\* calculate_stability_factor with its two factors exchanged
calculate_stability_factor_exchanged(e) ==
    LET perf == e.recent_performance
    IN IF Len(perf) < 5 THEN 10
       ELSE IF 10 * Changes(perf) > 6 * (Len(perf) - 1) THEN 13
       ELSE IF 10 * Changes(perf) < 2 * (Len(perf) - 1) THEN 7
       ELSE 10

\* in tenths
calculate_stability_factor(e) ==
    LET perf == e.recent_performance
    IN IF Len(perf) < 5 THEN 10
       ELSE IF 10 * Changes(perf) > 6 * (Len(perf) - 1) THEN 7
       ELSE IF 10 * Changes(perf) < 2 * (Len(perf) - 1) THEN 13
       ELSE 10

Clamp(lo, hi, x) == Max(lo, Min(hi, x))

\* lines 308-313 without the reset of the counter of the other outcome
record_outcome_unreset(e, is_correct, response_time) ==
    [e EXCEPT !.recent_performance = AppendCapped(@, is_correct, PerformanceHistorySize),
              !.recent_response_times = AppendCapped(@, response_time, PerformanceHistorySize),
              !.consecutive_correct = IF is_correct THEN @ + 1 ELSE @,
              !.consecutive_incorrect = IF is_correct THEN @ ELSE @ + 1]

\* The windows and streak counters after lines 301-313 of update_difficulty.
record_outcome(e, is_correct, response_time) ==
    [e EXCEPT !.recent_performance = AppendCapped(@, is_correct, PerformanceHistorySize),
              !.recent_response_times = AppendCapped(@, response_time, PerformanceHistorySize),
              !.consecutive_correct = IF is_correct THEN @ + 1 ELSE 0,
              !.consecutive_incorrect = IF is_correct THEN 0 ELSE @ + 1]

\* lines 320-337 with max_change taken for the step and no clamp
enhanced_adjustment_after_unclamped(e, confidence_impact, is_correct, response_time) ==
    LET step == IF is_correct THEN MaxDifficultyChange * S ELSE 0 - MaxDifficultyChange * S
        base_adjustment ==
            IF e.consecutive_correct >= 3 \/ e.consecutive_incorrect >= 3
            THEN MulDiv(step, 12, 10)
            ELSE step
        time_impact == calculate_time_impact(e, response_time, is_correct)
    IN [raises |-> confidence_impact.raises,
        self |-> [e EXCEPT !.confidence_engine = confidence_impact.self],
        returns |-> MulDiv(base_adjustment + confidence_impact.returns + time_impact,
                           calculate_stability_factor(e), 10)]

\* lines 320-337, `confidence_impact` being the call of calculate_confidence_impact
\* in line 327
enhanced_adjustment_after(e, confidence_impact, is_correct, response_time) ==
    LET step == IF is_correct THEN 5 * S ELSE 0 - 5 * S
        base_adjustment ==
            IF e.consecutive_correct >= 3 \/ e.consecutive_incorrect >= 3
            THEN MulDiv(step, 12, 10)
            ELSE step
        time_impact == calculate_time_impact(e, response_time, is_correct)
        total_adjustment ==
            MulDiv(base_adjustment + confidence_impact.returns + time_impact,
                   calculate_stability_factor(e), 10)
    IN [raises |-> confidence_impact.raises,
        self |-> [e EXCEPT !.confidence_engine = confidence_impact.self],
        returns |-> Clamp(0 - MaxDifficultyChange * S, MaxDifficultyChange * S,
                          total_adjustment)]

\* e is the engine with the windows and the streak counters already updated
calculate_enhanced_adjustment(e, is_correct, response_time, confidence) ==
    enhanced_adjustment_after(
        e,
        calculate_confidence_impact(e.confidence_engine, confidence, is_correct,
                                    response_time, Trunc(e.current_difficulty)),
        is_correct, response_time)

\* line 317 without its clamp
difficulty_after_unclamped(adjustment) ==
    [raises |-> adjustment.raises,
     adjustment |-> adjustment.returns,
     self |-> [adjustment.self EXCEPT
                  !.current_difficulty =
                      IF adjustment.raises THEN @ ELSE @ + adjustment.returns]]

\* line 317, `adjustment` being the call of calculate_enhanced_adjustment in line 315.
\* `raises`: that call ended in ValueError (math domain error), with the windows, the
\* counters and the confidence histories updated and the difficulty not
difficulty_after(adjustment) ==
    [raises |-> adjustment.raises,
     adjustment |-> adjustment.returns,
     self |-> [adjustment.self EXCEPT
                  !.current_difficulty =
                      IF adjustment.raises THEN @
                      ELSE Clamp(MinDifficulty * S, MaxDifficulty * S,
                                 @ + adjustment.returns)]]

\* update_difficulty computing the step (line 315) before the streak counters are
\* brought up to date (lines 308-313)
update_difficulty_counted_after(e, is_correct, response_time, confidence) ==
    LET counted == record_outcome(e, is_correct, response_time)
        update ==
            difficulty_after(
                calculate_enhanced_adjustment(
                    [counted EXCEPT !.consecutive_correct = e.consecutive_correct,
                                    !.consecutive_incorrect = e.consecutive_incorrect],
                    is_correct, response_time, confidence))
    IN [update EXCEPT !.self.consecutive_correct = counted.consecutive_correct,
                      !.self.consecutive_incorrect = counted.consecutive_incorrect]

update_difficulty(e, is_correct, response_time, confidence) ==
    difficulty_after(
        calculate_enhanced_adjustment(record_outcome(e, is_correct, response_time),
                                      is_correct, response_time, confidence))

\* calculate_system_confidence without the clamp of its last line
calculate_system_confidence_unclamped(e, is_correct, response_time) ==
    LET expected_time == ExpectedTime(e.current_difficulty)
        outcome == IF is_correct THEN 3 ELSE 0 - 2
        timing ==
            IF is_correct /\ response_time * S * 10 < 7 * expected_time THEN 2
            ELSE IF is_correct /\ response_time * S * 10 > 15 * expected_time THEN 0 - 1
            ELSE IF ~is_correct /\ response_time * S * 10 < 5 * expected_time THEN 0 - 2
            ELSE 0
        streak ==
            IF e.consecutive_correct >= 3 THEN 1
            ELSE IF e.consecutive_incorrect >= 2 THEN 0 - 1
            ELSE 0
        n == Len(e.recent_performance)
        last3 == IF n >= 3 THEN CountTrue(SubSeq(e.recent_performance, n - 2, n)) ELSE 0
        recent ==
            IF n >= 3 /\ last3 = 3 /\ e.current_difficulty < 70 * S THEN 1
            ELSE IF n >= 3 /\ last3 <= 1 /\ e.current_difficulty > 50 * S THEN 0 - 1
            ELSE 0
    IN 2 * (5 + outcome + timing + streak + recent)

\* The confidence the controller computes itself, in half-tenths.
calculate_system_confidence(e, is_correct, response_time) ==
    LET expected_time == ExpectedTime(e.current_difficulty)
        outcome == IF is_correct THEN 3 ELSE 0 - 2
        timing ==
            IF is_correct /\ response_time * S * 10 < 7 * expected_time THEN 2
            ELSE IF is_correct /\ response_time * S * 10 > 15 * expected_time THEN 0 - 1
            ELSE IF ~is_correct /\ response_time * S * 10 < 5 * expected_time THEN 0 - 2
            ELSE 0
        streak ==
            IF e.consecutive_correct >= 3 THEN 1
            ELSE IF e.consecutive_incorrect >= 2 THEN 0 - 1
            ELSE 0
        n == Len(e.recent_performance)
        last3 == IF n >= 3 THEN CountTrue(SubSeq(e.recent_performance, n - 2, n)) ELSE 0
        recent ==
            IF n >= 3 /\ last3 = 3 /\ e.current_difficulty < 70 * S THEN 1
            ELSE IF n >= 3 /\ last3 <= 1 /\ e.current_difficulty > 50 * S THEN 0 - 1
            ELSE 0
        tenths == Clamp(1, 9, 5 + outcome + timing + streak + recent)
    IN IF tenths = 7 THEN 15 ELSE 2 * tenths

\* ---------------------------------------------- ConfidenceQualityMetrics

QualityHistorySize == 100

MinQualitySamples == 10

add_data_point(data, confidence, is_correct) ==
    AppendCapped(data, <<confidence, is_correct>>, QualityHistorySize)

\* sum over the bins with at least three samples of |bin - accuracy| * weight, in tenths
RECURSIVE BinErrorSum(_, _)
BinErrorSum(data, k) ==
    IF k > 10 THEN 0
    ELSE (IF BinCount(data, k) >= MinSamplesPerBin
          THEN Abs(k * BinCount(data, k) - 10 * BinCorrect(data, k))
          ELSE 0) + BinErrorSum(data, k + 1)

RECURSIVE BinWeightSum(_, _)
BinWeightSum(data, k) ==
    IF k > 10 THEN 0
    ELSE (IF BinCount(data, k) >= MinSamplesPerBin THEN BinCount(data, k) ELSE 0)
         + BinWeightSum(data, k + 1)

calculate_calibration_error(data) ==
    IF BinWeightSum(data, 0) > 0
    THEN (S * BinErrorSum(data, 0)) \div (10 * BinWeightSum(data, 0))
    ELSE 0

HighConfidence(data) == {i \in 1..Len(data) : data[i][1] > 14}

calculate_overconfidence(data) ==
    IF HighConfidence(data) # {}
    THEN (S * Cardinality({i \in HighConfidence(data) : ~data[i][2]}))
         \div Cardinality(HighConfidence(data))
    ELSE 0

\* the confidences of the correct (or of the incorrect) answers, in order
ConfidencesOf(data, correct) ==
    LET Test(p) == p[2] = correct
        chosen == SelectSeq(data, Test)
    IN [i \in 1..Len(chosen) |-> chosen[i][1]]

\* statistics.variance (sample variance), in 1/10000
Variance(x) == (100 * VarTermX(x)) \div (Len(x) * (Len(x) - 1))

calculate_consistency(data) ==
    LET correct_confidences == ConfidencesOf(data, TRUE)
        incorrect_confidences == ConfidencesOf(data, FALSE)
    IN IF Len(correct_confidences) < 3 \/ Len(incorrect_confidences) < 3 THEN S \div 2
       ELSE (S * 20000)
            \div (20000 + Variance(correct_confidences) + Variance(incorrect_confidences))

\* get_confidence_quality_score computing the blend from the third data point on
get_confidence_quality_score_eager(data) ==
    IF Len(data) < MinSamplesPerBin THEN S \div 2
    ELSE Clamp(0, S,
               (4 * (S - calculate_calibration_error(data))
                + 4 * (S - calculate_overconfidence(data))
                + 2 * calculate_consistency(data)) \div 10)

get_confidence_quality_score(data) ==
    IF Len(data) < MinQualitySamples THEN S \div 2
    ELSE Clamp(0, S,
               (4 * (S - calculate_calibration_error(data))
                + 4 * (S - calculate_overconfidence(data))
                + 2 * calculate_consistency(data)) \div 10)

\* --------------------------------------------------------- configuration

BasePoints == 10

MaxQuestionsPerDomain == 20

HonestyReward == 2

MaxIncrement == 20

DomainMasteredScore == 90

DomainCompletedScore == 70

\* CONFIG["assessment"]["mastery_threshold"] and ["struggling_threshold"]
MasteryThreshold == 85

StrugglingThreshold == 40

\* the keys of CONFIG["scoring"]
ScoringKeys ==
    {"base_points", "difficulty_bonus", "confidence_bonus", "time_bonus_threshold",
     "honesty_reward"}

NOT_STARTED == "not_started"

IN_PROGRESS == "in_progress"

COMPLETED == "completed"

MASTERED == "mastered"

STRUGGLING == "struggling"

TerminalStatuses == {COMPLETED, MASTERED, STRUGGLING}

\* ------------------------------------------------------ the content generator

NumOptions == 4

\* _generate_mock_question's pool: the tag, its correct option, its estimated time
QuestionPool ==
    {[knowledge_tag |-> "Fundamentals", correct_answer_index |-> 1, estimated_time |-> 30],
     [knowledge_tag |-> "Application", correct_answer_index |-> 2, estimated_time |-> 45]}

\* the generator raising an exception where it should return a question
GenerationError ==
    [knowledge_tag |-> "GenerationError", correct_answer_index |-> 0 - 1, estimated_time |-> 0]

GeneratorOutcomes == QuestionPool \cup {GenerationError}

Question(q, difficulty) ==
    [knowledge_tag |-> q.knowledge_tag,
     correct_answer_index |-> q.correct_answer_index,
     estimated_time |-> q.estimated_time,
     options |-> NumOptions,
     difficulty_level |-> difficulty]

\* ------------------------------------------------------- QuestionFlowManager

\* calculate_enhanced_progress_increment starting a wrong answer from the base points
calculate_enhanced_progress_increment_based(data, is_correct, confidence, difficulty, response_time) ==
    LET base_increment == BasePoints * S
        difficulty_bonus == (difficulty * base_increment) \div 1000
        confidence_bonus == (ConfValue(confidence) * BasePoints * 5) \div 100
        quality_bonus == (get_confidence_quality_score(data) * BasePoints) \div 10
        expected_time == 3000 + 30 * difficulty
        time_bonus ==
            IF response_time * 1000 < 8 * expected_time THEN (2 * base_increment) \div 10 ELSE 0
        increment ==
            IF is_correct
            THEN base_increment + difficulty_bonus + confidence_bonus + quality_bonus + time_bonus
            ELSE base_increment + (IF confidence < 8 THEN HonestyReward * S ELSE 0)
        percentage_increment == (increment * 100) \div (BasePoints * MaxQuestionsPerDomain)
    IN Min(percentage_increment, MaxIncrement * S)

\* calculate_enhanced_progress_increment giving a wrong answer nothing
calculate_enhanced_progress_increment_unrewarded(data, is_correct, confidence, difficulty, response_time) ==
    LET base_increment == BasePoints * S
        difficulty_bonus == (difficulty * base_increment) \div 1000
        confidence_bonus == (ConfValue(confidence) * BasePoints * 5) \div 100
        quality_bonus == (get_confidence_quality_score(data) * BasePoints) \div 10
        expected_time == 3000 + 30 * difficulty
        time_bonus ==
            IF response_time * 1000 < 8 * expected_time THEN (2 * base_increment) \div 10 ELSE 0
        increment ==
            IF is_correct
            THEN base_increment + difficulty_bonus + confidence_bonus + quality_bonus + time_bonus
            ELSE 0
        percentage_increment == (increment * 100) \div (BasePoints * MaxQuestionsPerDomain)
    IN Min(percentage_increment, MaxIncrement * S)

\* calculate_enhanced_progress_increment taking the honesty reward away
calculate_enhanced_progress_increment_penalty(data, is_correct, confidence, difficulty, response_time) ==
    LET base_increment == BasePoints * S
        difficulty_bonus == (difficulty * base_increment) \div 1000
        confidence_bonus == (ConfValue(confidence) * BasePoints * 5) \div 100
        quality_bonus == (get_confidence_quality_score(data) * BasePoints) \div 10
        expected_time == 3000 + 30 * difficulty
        time_bonus ==
            IF response_time * 1000 < 8 * expected_time THEN (2 * base_increment) \div 10 ELSE 0
        increment ==
            IF is_correct
            THEN base_increment + difficulty_bonus + confidence_bonus + quality_bonus + time_bonus
            ELSE IF confidence < 8 THEN 0 - HonestyReward * S ELSE 0
    IN Min(0 - (((0 - increment) * 100) \div (BasePoints * MaxQuestionsPerDomain)),
           MaxIncrement * S)

\* in 1/S percentage points; data is confidence_metrics.confidence_accuracy_data
\* (the callers hold a ConfidenceQualityMetrics, so line 167 is not taken)
calculate_enhanced_progress_increment(data, is_correct, confidence, difficulty, response_time) ==
    LET base_increment == BasePoints * S
        difficulty_bonus == (difficulty * base_increment) \div 1000
        confidence_bonus == (ConfValue(confidence) * BasePoints * 5) \div 100
        quality_bonus == (get_confidence_quality_score(data) * BasePoints) \div 10
        expected_time == 3000 + 30 * difficulty
        time_bonus ==
            IF response_time * 1000 < 8 * expected_time THEN (2 * base_increment) \div 10 ELSE 0
        increment ==
            IF is_correct
            THEN base_increment + difficulty_bonus + confidence_bonus + quality_bonus + time_bonus
            ELSE IF confidence < 8 THEN HonestyReward * S ELSE 0
        percentage_increment == (increment * 100) \div (BasePoints * MaxQuestionsPerDomain)
    IN Min(percentage_increment, MaxIncrement * S)

Accuracy(da) ==
    IF da.questions_attempted > 0
    THEN (da.questions_correct * 100 * S) \div da.questions_attempted
    ELSE 0

Classify(accuracy) ==
    IF accuracy >= DomainMasteredScore * S THEN MASTERED
    ELSE IF accuracy >= DomainCompletedScore * S THEN COMPLETED
    ELSE STRUGGLING

\* complete_domain_assessment with both thresholds among the keys of CONFIG["scoring"]
complete_domain_assessment_configured(da) ==
    [raised |-> FALSE, status |-> Classify(Accuracy(da))]

\* complete_domain_assessment up to line 255: the status it leaves, and whether the
\* lookup of the thresholds in CONFIG["scoring"] raised KeyError before the assignment.
complete_domain_assessment(da) ==
    IF "domain_mastered_score" \in ScoringKeys
       /\ (Accuracy(da) >= DomainMasteredScore * S \/ "domain_completed_score" \in ScoringKeys)
    THEN [raised |-> FALSE, status |-> Classify(Accuracy(da))]
    ELSE [raised |-> TRUE, status |-> da.status]

NewDomainAssessment(difficulty) ==
    [status |-> NOT_STARTED,
     current_difficulty |-> difficulty,
     questions_attempted |-> 0,
     questions_correct |-> 0,
     response_history |-> <<>>,
     knowledge_gaps |-> <<>>,
     mastery_areas |-> <<>>,
     average_response_time |-> 0,
     confidence_score |-> 0]

AppendNew(list, x) == IF \E i \in 1..Len(list) : list[i] = x THEN list ELSE Append(list, x)

\* the record of a call: what was called, with what, and what came back
NoCall ==
    [op |-> "none", domain |-> None, answer_index |-> None, confidence |-> None,
     response_time |-> None, result |-> "None", is_correct |-> FALSE,
     system_confidence |-> None, adjustment |-> 0, progress_increment |-> 0,
     domain_complete |-> FALSE, domain_status |-> "None", next_question |-> None,
     generator_calls |-> 0, raised |-> "None", status_before |-> "None",
     returns |-> None, generator_raised |-> FALSE, request |-> None]

\* ------------------------------------------------------------- the bounds

NumDomains == 2

MaxStarts == 2

MaxAnswers == 2

MaxResets == 1

MaxGenerates == 1

MaxRunAnswers == 16

MaxEngineCalls == 12

MaxDeviations == 2

MaxRunDeviations == 1

MaxSteadyCalls == 18

MaxColdAnswers == 3

MaxColdGenerates == 3

MaxLongAnswers == 102

MaxLongDeviations == 1

Domains == 0..(NumDomains - 1)

\* estimated_difficulty of the generated domains
InitDifficulties == {1, 100}

\* answer_index: the two correct indices of the pool, and one past the last option
AnswerIndices == {1, 2, NumOptions}

\* the confidence the user reports, in half-tenths
Confidences == {4, 16}

\* seconds between the question and the answer
Times == {5, 40, 120}

\* confidence passed to update_difficulty directly, in half-tenths
EngineConfidences == {0, 6, 10, 14, 18, 20}

\* `responses`: the answers recorded to the question the manager holds
NoBudget ==
    [starts |-> 0, answers |-> 0, resets |-> 0, generates |-> 0, deviations |-> 0,
     responses |-> 0]

\* ----------------------------------------------------- AssessmentFlowManager

\* can_access_domain opening a domain as soon as the one before it is started
can_access_domain_started(idx) ==
    /\ idx \in Domains
    /\ (idx = 0 \/ domain_assessments[idx - 1].status # NOT_STARTED)

can_access_domain(idx) ==
    /\ idx \in Domains
    /\ (idx = 0 \/ domain_assessments[idx - 1].status \in TerminalStatuses)

\* AssessmentFlowManager.start_domain_assessment(idx)
AStart(idx) ==
    /\ budget' = [budget EXCEPT !.starts = @ + 1]
    /\ IF can_access_domain(idx)
       THEN /\ domain_assessments' = [domain_assessments EXCEPT ![idx].status = IN_PROGRESS]
            /\ current_domain_index' = idx
            /\ last' = [NoCall EXCEPT !.op = "AssessmentFlowManager.start_domain_assessment",
                                      !.domain = Some(idx), !.result = "True",
                                      !.status_before = domain_assessments[idx].status]
       ELSE /\ UNCHANGED <<domain_assessments, current_domain_index>>
            /\ last' = [NoCall EXCEPT !.op = "AssessmentFlowManager.start_domain_assessment",
                                      !.domain = Some(idx), !.result = "False"]
    /\ UNCHANGED <<engine, domain_list, assessment_app_instance, learning_session, overall_score, current_domain_assessment, difficulty_engine,
                   confidence_metrics, current_question, question_start_time,
                   domain_progress>>

\* AssessmentFlowManager.complete_domain_assessment(idx): the domain in progress
\* gets the terminal status of its accuracy.
AComplete(idx, cost) ==
    /\ domain_assessments[idx].status = IN_PROGRESS
    /\ budget' = [budget EXCEPT !.deviations = @ + cost]
    /\ domain_assessments' =
           [domain_assessments EXCEPT ![idx].status = Classify(Accuracy(domain_assessments[idx]))]
    /\ last' = [NoCall EXCEPT !.op = "AssessmentFlowManager.complete_domain_assessment",
                              !.domain = Some(idx),
                              !.result = Classify(Accuracy(domain_assessments[idx]))]
    /\ UNCHANGED <<engine, domain_list, assessment_app_instance, learning_session, overall_score, current_domain_index, current_domain_assessment,
                   difficulty_engine, confidence_metrics, current_question,
                   question_start_time, domain_progress>>

\* AssessmentFlowManager.get_assessment_progress(): its completed_count (the total
\* is NumDomains)
get_assessment_progress ==
    Cardinality({i \in Domains :
                    domain_assessments[i].status \in {COMPLETED, MASTERED, STRUGGLING}})

is_assessment_complete == get_assessment_progress = NumDomains

\* completed_domains of KnowledgeAssessmentApp.get_assessment_progress()
completed_domains ==
    Cardinality({i \in Domains : domain_assessments[i].status \in {COMPLETED, MASTERED}})

\* ------------------------------------------- QuestionFlowManager, the calls

\* start_domain_assessment also clearing questions_attempted, and not questions_correct
QStartResetAttempts(idx) ==
    /\ budget' = [budget EXCEPT !.starts = @ + 1]
    /\ current_domain_assessment' = Some(idx)
    /\ difficulty_engine' = Some(NewEngine(domain_assessments[idx].current_difficulty))
    /\ confidence_metrics' = Some([confidence_accuracy_data |-> <<>>])
    /\ domain_progress' = 0
    /\ domain_assessments' = [domain_assessments EXCEPT ![idx].status = IN_PROGRESS,
                                                        ![idx].questions_attempted = 0]
    /\ last' = [NoCall EXCEPT !.op = "start_domain_assessment", !.domain = Some(idx),
                              !.result = "True",
                              !.status_before = domain_assessments[idx].status]
    /\ UNCHANGED <<engine, domain_list, assessment_app_instance, learning_session, overall_score, current_domain_index, current_question,
                   question_start_time>>

\* start_domain_assessment making an engine only when the manager has none
QStartKeepEngine(idx) ==
    /\ budget' = [budget EXCEPT !.starts = @ + 1]
    /\ current_domain_assessment' = Some(idx)
    /\ difficulty_engine' =
           IF difficulty_engine = None
           THEN Some(NewEngine(domain_assessments[idx].current_difficulty))
           ELSE difficulty_engine
    /\ confidence_metrics' = Some([confidence_accuracy_data |-> <<>>])
    /\ domain_progress' = 0
    /\ domain_assessments' = [domain_assessments EXCEPT ![idx].status = IN_PROGRESS]
    /\ last' = [NoCall EXCEPT !.op = "start_domain_assessment", !.domain = Some(idx),
                              !.result = "True",
                              !.status_before = domain_assessments[idx].status]
    /\ UNCHANGED <<engine, domain_list, assessment_app_instance, learning_session, overall_score, current_domain_index, current_question,
                   question_start_time>>

\* start_domain_assessment taking every other domain in progress back to NOT_STARTED
QStartExclusive(idx) ==
    /\ budget' = [budget EXCEPT !.starts = @ + 1]
    /\ current_domain_assessment' = Some(idx)
    /\ difficulty_engine' = Some(NewEngine(domain_assessments[idx].current_difficulty))
    /\ confidence_metrics' = Some([confidence_accuracy_data |-> <<>>])
    /\ domain_progress' = 0
    /\ domain_assessments' =
           [i \in Domains |->
               IF i = idx THEN [domain_assessments[i] EXCEPT !.status = IN_PROGRESS]
               ELSE IF domain_assessments[i].status = IN_PROGRESS
               THEN [domain_assessments[i] EXCEPT !.status = NOT_STARTED]
               ELSE domain_assessments[i]]
    /\ last' = [NoCall EXCEPT !.op = "start_domain_assessment", !.domain = Some(idx),
                              !.result = "True",
                              !.status_before = domain_assessments[idx].status]
    /\ UNCHANGED <<engine, domain_list, assessment_app_instance, learning_session, overall_score, current_domain_index, current_question,
                   question_start_time>>

\* QuestionFlowManager.start_domain_assessment(domain_assessments[idx])
QStart(idx) ==
    /\ budget' = [budget EXCEPT !.starts = @ + 1]
    /\ current_domain_assessment' = Some(idx)
    /\ difficulty_engine' = Some(NewEngine(domain_assessments[idx].current_difficulty))
    /\ confidence_metrics' = Some([confidence_accuracy_data |-> <<>>])
    /\ domain_progress' = 0
    /\ domain_assessments' = [domain_assessments EXCEPT ![idx].status = IN_PROGRESS]
    /\ last' = [NoCall EXCEPT !.op = "start_domain_assessment", !.domain = Some(idx),
                              !.result = "True",
                              !.status_before = domain_assessments[idx].status]
    /\ UNCHANGED <<engine, domain_list, assessment_app_instance, learning_session, overall_score, current_domain_index, current_question,
                   question_start_time>>

\* the difficulty asked of the generator, rounded to the nearest integer
requested_difficulty_rounded(e) == (e.current_difficulty + S \div 2) \div S

\* line 53: the difficulty generate_question asks the generator for
requested_difficulty(e) == Trunc(e.current_difficulty)

\* generate_question's guard (line 49)
NoSession == current_domain_assessment = None \/ difficulty_engine = None

\* generate_question asking for the default difficulty of get_current_difficulty
\* (line 292) and not for the engine's
GenerateDefaultDifficulty(q) ==
    /\ budget' = [budget EXCEPT !.generates = @ + 1,
                                !.responses = IF NoSession \/ q = GenerationError THEN @ ELSE 0]
    /\ IF NoSession
       THEN /\ UNCHANGED <<current_question, question_start_time>>
            /\ last' = [NoCall EXCEPT !.op = "generate_question"]
       ELSE IF q = GenerationError
       THEN /\ UNCHANGED <<current_question, question_start_time>>
            /\ last' = [NoCall EXCEPT !.op = "generate_question", !.generator_calls = 1,
                                      !.generator_raised = TRUE,
                                      !.request = Some(50)]
       ELSE /\ current_question' = Some(Question(q, 50))
            /\ question_start_time' = Some("now")
            /\ last' = [NoCall EXCEPT !.op = "generate_question",
                                      !.result = "Question",
                                      !.next_question = current_question',
                                      !.generator_calls = 1,
                                      !.request = Some(50)]
    /\ UNCHANGED <<engine, domain_list, assessment_app_instance, learning_session, overall_score, domain_assessments, current_domain_index,
                   current_domain_assessment, difficulty_engine, confidence_metrics,
                   domain_progress>>

\* generate_question with an except branch that also puts the progress back to 0
GenerateCleanup(q) ==
    /\ budget' = [budget EXCEPT !.generates = @ + 1,
                                !.responses = IF NoSession \/ q = GenerationError THEN @ ELSE 0]
    /\ IF NoSession
       THEN /\ UNCHANGED <<current_question, question_start_time, domain_progress>>
            /\ last' = [NoCall EXCEPT !.op = "generate_question"]
       ELSE IF q = GenerationError
       THEN /\ domain_progress' = 0
            /\ UNCHANGED <<current_question, question_start_time>>
            /\ last' = [NoCall EXCEPT !.op = "generate_question", !.generator_calls = 1,
                                      !.generator_raised = TRUE,
                                      !.request = Some(requested_difficulty(The(difficulty_engine)))]
       ELSE /\ current_question' =
                   Some(Question(q, requested_difficulty(The(difficulty_engine))))
            /\ question_start_time' = Some("now")
            /\ UNCHANGED domain_progress
            /\ last' = [NoCall EXCEPT !.op = "generate_question",
                                      !.result = "Question",
                                      !.next_question = current_question',
                                      !.generator_calls = 1,
                                      !.request = Some(requested_difficulty(The(difficulty_engine)))]
    /\ UNCHANGED <<engine, domain_list, assessment_app_instance, learning_session, overall_score, domain_assessments, current_domain_index,
                   current_domain_assessment, difficulty_engine, confidence_metrics>>

\* generate_question(), the generator returning the question q of its pool or
\* raising: lines 64-66 catch the exception and return None
Generate(q) ==
    /\ budget' = [budget EXCEPT !.generates = @ + 1,
                                !.responses = IF NoSession \/ q = GenerationError THEN @ ELSE 0]
    /\ IF NoSession
       THEN /\ UNCHANGED <<current_question, question_start_time>>
            /\ last' = [NoCall EXCEPT !.op = "generate_question"]
       ELSE IF q = GenerationError
       THEN /\ UNCHANGED <<current_question, question_start_time>>
            /\ last' = [NoCall EXCEPT !.op = "generate_question", !.generator_calls = 1,
                                      !.generator_raised = TRUE,
                                      !.request = Some(requested_difficulty(The(difficulty_engine)))]
       ELSE /\ current_question' =
                   Some(Question(q, requested_difficulty(The(difficulty_engine))))
            /\ question_start_time' = Some("now")
            /\ last' = [NoCall EXCEPT !.op = "generate_question",
                                      !.result = "Question",
                                      !.next_question = current_question',
                                      !.generator_calls = 1,
                                      !.request = Some(requested_difficulty(The(difficulty_engine)))]
    /\ UNCHANGED <<engine, domain_list, assessment_app_instance, learning_session, overall_score, domain_assessments, current_domain_index,
                   current_domain_assessment, difficulty_engine, confidence_metrics,
                   domain_progress>>

\* reset_session also putting the domain it leaves back to NOT_STARTED
ResetStatus ==
    /\ budget' = [budget EXCEPT !.resets = @ + 1, !.responses = 0]
    /\ current_domain_assessment' = None
    /\ difficulty_engine' = None
    /\ confidence_metrics' = None
    /\ current_question' = None
    /\ question_start_time' = None
    /\ domain_progress' = 0
    /\ domain_assessments' =
           IF current_domain_assessment = None THEN domain_assessments
           ELSE [domain_assessments EXCEPT
                    ![The(current_domain_assessment)].status = NOT_STARTED]
    /\ last' = [NoCall EXCEPT !.op = "reset_session"]
    /\ UNCHANGED <<engine, domain_list, assessment_app_instance, learning_session, overall_score, current_domain_index>>

\* reset_session()
Reset ==
    /\ budget' = [budget EXCEPT !.resets = @ + 1, !.responses = 0]
    /\ current_domain_assessment' = None
    /\ difficulty_engine' = None
    /\ confidence_metrics' = None
    /\ current_question' = None
    /\ question_start_time' = None
    /\ domain_progress' = 0
    /\ last' = [NoCall EXCEPT !.op = "reset_session"]
    /\ UNCHANGED <<engine, domain_list, assessment_app_instance, learning_session, overall_score, domain_assessments, current_domain_index>>

\* the guard of line 80 without its test of current_question
NoActiveQuestionUnchecked ==
    \/ current_domain_assessment = None
    \/ difficulty_engine = None
    \/ confidence_metrics = None

\* submit_answer's guard (line 80)
NoActiveQuestion ==
    \/ current_question = None
    \/ current_domain_assessment = None
    \/ difficulty_engine = None
    \/ confidence_metrics = None

\* line 114 without the cap of line 115
advance_progress_uncapped(progress, progress_increment) == progress + progress_increment

\* lines 114-115
advance_progress(progress, progress_increment) == Min(100 * S, progress + progress_increment)

\* the test of line 149 never finding the domain complete
progress_full_never(progress) == FALSE

\* line 149: the domain is complete, and no next question is asked for
progress_full(progress) == progress >= 100 * S

\* the controller fed the confidence the user declared
controller_confidence_declared(system_confidence, confidence) == confidence

\* lines 102-112: the confidence submit_answer gives to the quality metrics, the
\* engine and the progress increment is the one it computed, not its argument
controller_confidence(system_confidence, confidence) == system_confidence

\* record_response numbering the question by the correct answers so far
record_response_numbered(da, idx, question, answer_index, confidence, response_time, quality) ==
    LET is_correct == answer_index = question.correct_answer_index
        response == [question_id |-> <<idx, da.questions_correct>>,
                     user_answer_index |-> answer_index,
                     is_correct |-> is_correct,
                     response_time |-> response_time,
                     confidence_level |-> confidence]
        history == Append(da.response_history, response)
        total_time == SumSeq([i \in 1..Len(history) |-> history[i].response_time])
    IN [da EXCEPT !.response_history = history,
                  !.questions_attempted = @ + 1,
                  !.questions_correct = IF is_correct THEN @ + 1 ELSE @,
                  !.knowledge_gaps =
                      IF is_correct THEN @ ELSE AppendNew(@, question.knowledge_tag),
                  !.mastery_areas =
                      IF is_correct THEN AppendNew(@, question.knowledge_tag) ELSE @,
                  !.average_response_time = (S * total_time) \div Len(history),
                  !.confidence_score = quality]

\* lines 86-99 and 117-129: the DomainAssessment after the answer is recorded
record_response(da, idx, question, answer_index, confidence, response_time, quality) ==
    LET is_correct == answer_index = question.correct_answer_index
        response == [question_id |-> <<idx, Len(da.response_history)>>,
                     user_answer_index |-> answer_index,
                     is_correct |-> is_correct,
                     response_time |-> response_time,
                     confidence_level |-> confidence]
        history == Append(da.response_history, response)
        total_time == SumSeq([i \in 1..Len(history) |-> history[i].response_time])
    IN [da EXCEPT !.response_history = history,
                  !.questions_attempted = @ + 1,
                  !.questions_correct = IF is_correct THEN @ + 1 ELSE @,
                  !.knowledge_gaps =
                      IF is_correct THEN @ ELSE AppendNew(@, question.knowledge_tag),
                  !.mastery_areas =
                      IF is_correct THEN AppendNew(@, question.knowledge_tag) ELSE @,
                  !.average_response_time = (S * total_time) \div Len(history),
                  !.confidence_score = quality]

\* submit_answer(answer_index, confidence), answered `elapsed` seconds after the
\* question was generated; q is what the generator does if it is called.
Submit(answer_index, confidence, elapsed, q, cost) ==
    /\ IF NoActiveQuestion
       THEN /\ last' = [NoCall EXCEPT !.op = "submit_answer", !.result = "error",
                                      !.answer_index = Some(answer_index),
                                      !.confidence = Some(confidence)]
            /\ UNCHANGED <<domain_assessments, difficulty_engine, confidence_metrics,
                           current_question, question_start_time, domain_progress>>
       ELSE IF current_question = None
       THEN \* line 84 reads an attribute of None
            /\ last' = [NoCall EXCEPT !.op = "submit_answer", !.raised = "AttributeError",
                                      !.answer_index = Some(answer_index),
                                      !.confidence = Some(confidence)]
            /\ UNCHANGED <<domain_assessments, difficulty_engine, confidence_metrics,
                           current_question, question_start_time, domain_progress>>
       ELSE
         LET idx == The(current_domain_assessment)
             question == The(current_question)
             response_time == IF question_start_time # None THEN elapsed ELSE 30
             is_correct == answer_index = question.correct_answer_index
         IN
         \E system_confidence \in
                {controller_confidence(
                     calculate_system_confidence(The(difficulty_engine), is_correct,
                                                 response_time),
                     confidence)} :
         \E data \in
                {add_data_point(The(confidence_metrics).confidence_accuracy_data,
                                system_confidence, is_correct)} :
         \E update \in
                {update_difficulty(The(difficulty_engine), is_correct, response_time,
                                   system_confidence)} :
         \E progress_increment \in
                {calculate_enhanced_progress_increment(
                     data, is_correct, system_confidence, question.difficulty_level,
                     response_time)} :
         \E da \in
                {[record_response(domain_assessments[idx], idx, question, answer_index,
                                  confidence, response_time,
                                  get_confidence_quality_score(data))
                     EXCEPT !.current_difficulty = Trunc(update.self.current_difficulty)]} :
         LET raises == update.raises
             e == update.self
             adjustment == update.adjustment
             progress == advance_progress(domain_progress, progress_increment)
             completion == complete_domain_assessment(da)
             call == [NoCall EXCEPT !.op = "submit_answer", !.domain = Some(idx),
                                    !.answer_index = Some(answer_index),
                                    !.confidence = Some(confidence),
                                    !.response_time = Some(response_time),
                                    !.is_correct = is_correct,
                                    !.system_confidence = Some(system_confidence)]
         IN /\ confidence_metrics' = Some([confidence_accuracy_data |-> data])
            /\ difficulty_engine' = Some(e)
            /\ IF raises
               THEN \* update_difficulty (line 106) raised: lines 95-104 are done
                    /\ domain_assessments' =
                           [domain_assessments EXCEPT
                               ![idx].response_history = da.response_history,
                               ![idx].questions_attempted = da.questions_attempted,
                               ![idx].questions_correct = da.questions_correct]
                    /\ last' = [call EXCEPT !.raised = "ValueError"]
                    /\ UNCHANGED <<current_question, question_start_time, domain_progress>>
               ELSE /\ domain_progress' = progress
                    /\ IF progress_full(progress)
                       THEN /\ domain_assessments' =
                                   [domain_assessments EXCEPT
                                       ![idx] = [da EXCEPT !.status = completion.status]]
                            /\ last' = IF completion.raised
                                       THEN [call EXCEPT !.raised = "KeyError",
                                                         !.adjustment = adjustment,
                                                         !.progress_increment =
                                                             progress_increment]
                                       ELSE [call EXCEPT !.result = "ok",
                                                         !.adjustment = adjustment,
                                                         !.progress_increment =
                                                             progress_increment,
                                                         !.domain_complete = TRUE,
                                                         !.domain_status = completion.status]
                            /\ UNCHANGED <<current_question, question_start_time>>
                       ELSE /\ domain_assessments' = [domain_assessments EXCEPT ![idx] = da]
                            /\ IF q = GenerationError
                               THEN UNCHANGED <<current_question, question_start_time>>
                               ELSE /\ current_question' =
                                           Some(Question(q, requested_difficulty(e)))
                                    /\ question_start_time' = Some("now")
                            /\ last' = [call EXCEPT !.result = "ok",
                                                    !.adjustment = adjustment,
                                                    !.progress_increment = progress_increment,
                                                    !.next_question =
                                                        IF q = GenerationError THEN None
                                                        ELSE current_question',
                                                    !.generator_calls = 1,
                                                    !.generator_raised = q = GenerationError,
                                                    !.request = Some(requested_difficulty(e))]
    /\ budget' = [budget EXCEPT !.answers = @ + 1,
                                !.deviations = @ + cost,
                                !.responses = IF last'.domain = None THEN @
                                              ELSE IF last'.next_question # None THEN 0
                                              ELSE @ + 1]
    /\ UNCHANGED <<engine, domain_list, overall_score, current_domain_index, current_domain_assessment,
                   learning_session>>

\* ------------------------------------------------- KnowledgeAssessmentApp

\* KnowledgeAssessmentApp() after start_assessment: no question, a session that
\* counted nothing
NoApp == [current_question |-> None, total_questions |-> 0, total_correct |-> 0]

\* KnowledgeAssessmentApp.start_domain_assessment(idx): the two managers' starts and
\* the first generate_question, whose generator returns q or raises
AppStart(idx, q, cost) ==
    /\ IF ~can_access_domain(idx)
       THEN \* line 75: HTTPException 400
            /\ last' = [NoCall EXCEPT !.op = "KnowledgeAssessmentApp.start_domain_assessment",
                                      !.domain = Some(idx), !.raised = "HTTPException"]
            /\ budget' = [budget EXCEPT !.starts = @ + 1, !.deviations = @ + cost]
            /\ UNCHANGED <<domain_assessments, current_domain_index, current_domain_assessment,
                           difficulty_engine, confidence_metrics, current_question,
                           question_start_time, domain_progress, assessment_app_instance>>
       ELSE /\ domain_assessments' = [domain_assessments EXCEPT ![idx].status = IN_PROGRESS]
            /\ current_domain_index' = idx
            /\ current_domain_assessment' = Some(idx)
            /\ difficulty_engine' = Some(NewEngine(domain_assessments[idx].current_difficulty))
            /\ confidence_metrics' = Some([confidence_accuracy_data |-> <<>>])
            /\ domain_progress' = 0
            /\ IF q = GenerationError
               THEN UNCHANGED <<current_question, question_start_time>>
               ELSE /\ current_question' =
                           Some(Question(q, requested_difficulty(The(difficulty_engine'))))
                    /\ question_start_time' = Some("now")
            /\ assessment_app_instance' =
                   [assessment_app_instance EXCEPT
                       !.current_question = IF q = GenerationError THEN None
                                            ELSE current_question']
            /\ last' = [NoCall EXCEPT !.op = "KnowledgeAssessmentApp.start_domain_assessment",
                                      !.domain = Some(idx),
                                      !.result = IF q = GenerationError THEN "None" ELSE "ok",
                                      !.raised = IF q = GenerationError THEN "HTTPException"
                                                 ELSE "None",
                                      !.status_before = domain_assessments[idx].status,
                                      !.next_question = assessment_app_instance'.current_question,
                                      !.generator_calls = 1,
                                      !.generator_raised = q = GenerationError]
            /\ budget' = [budget EXCEPT !.starts = @ + 1,
                                        !.generates = @ + 1,
                                        !.deviations = @ + cost,
                                        !.responses = IF q = GenerationError THEN @ ELSE 0]
    /\ UNCHANGED <<engine, domain_list, overall_score, learning_session>>

\* KnowledgeAssessmentApp.submit_answer(answer_index, confidence): the manager's
\* submit_answer, then the session's totals and the application's question; an
\* exception of the manager leaves the method before them
AppSubmit(answer_index, confidence, elapsed, q, cost) ==
    IF assessment_app_instance.current_question = None
    THEN \* line 116: HTTPException 400
         /\ last' = [NoCall EXCEPT !.op = "KnowledgeAssessmentApp.submit_answer",
                                   !.raised = "HTTPException",
                                   !.answer_index = Some(answer_index),
                                   !.confidence = Some(confidence)]
         /\ budget' = [budget EXCEPT !.answers = @ + 1, !.deviations = @ + cost]
         /\ UNCHANGED <<engine, domain_list, domain_assessments, current_domain_index,
                        overall_score, current_domain_assessment, difficulty_engine,
                        confidence_metrics, current_question, question_start_time,
                        domain_progress, assessment_app_instance, learning_session>>
    ELSE /\ Submit(answer_index, confidence, elapsed, q, cost)
         /\ assessment_app_instance' =
                IF last'.raised # "None" THEN assessment_app_instance
                ELSE [current_question |-> last'.next_question,
                      total_questions |-> assessment_app_instance.total_questions + 1,
                      total_correct |-> assessment_app_instance.total_correct
                                            + (IF last'.is_correct THEN 1 ELSE 0)]

\* ------------------------------------------------------- LevelFlowManager

\* LevelStatus
LOCKED == "locked"

UNLOCKED == "unlocked"

PASSED == "passed"

FAILED == "failed"

\* the levels of the generated learning path
NumLevels == 3

Levels == 0..(NumLevels - 1)

\* final_status of the LevelReport given to complete_level
FinalStatuses == {PASSED, FAILED}

\* what the level flow leaves alone
AssessmentVars ==
    <<engine, domain_list, domain_assessments, current_domain_index, overall_score,
      current_domain_assessment, difficulty_engine, confidence_metrics,
      current_question, question_start_time, domain_progress, assessment_app_instance>>

\* lines 34-44: the LearningSession of a new learning path
NewLearningSession ==
    [level_statuses |-> [i \in Levels |-> IF i = 0 THEN UNLOCKED ELSE LOCKED],
     current_level_index |-> 0,
     history |-> <<>>]

\* start_new_learning_session(main_topic, NumLevels)
start_new_learning_session ==
    /\ learning_session' = Some(NewLearningSession)
    /\ last' = [NoCall EXCEPT !.op = "start_new_learning_session", !.result = "ok"]
    /\ budget' = [budget EXCEPT !.starts = @ + 1]
    /\ UNCHANGED AssessmentVars

can_access_level(level_index) ==
    /\ learning_session # None
    /\ level_index \in Levels
    /\ The(learning_session).level_statuses[level_index] \in {UNLOCKED, PASSED, FAILED}

\* start_level(level_index)
start_level(level_index) ==
    /\ IF can_access_level(level_index)
       THEN /\ learning_session' =
                   Some([The(learning_session) EXCEPT !.current_level_index = level_index])
            /\ last' = [NoCall EXCEPT !.op = "start_level", !.domain = Some(level_index),
                                      !.result = "ok"]
       ELSE /\ UNCHANGED learning_session
            /\ last' = [NoCall EXCEPT !.op = "start_level", !.domain = Some(level_index),
                                      !.raised = "ValueError"]
    /\ budget' = [budget EXCEPT !.generates = @ + 1]
    /\ UNCHANGED AssessmentVars

\* _all_levels_completed() of a session with these statuses
all_levels_completed(level_statuses) ==
    \A i \in Levels : level_statuses[i] \notin {LOCKED, UNLOCKED}

\* lines 105-115: the statuses after the report for level_index
completed_statuses(level_statuses, level_index, final_status) ==
    LET recorded == [level_statuses EXCEPT ![level_index] = final_status]
    IN IF final_status = PASSED /\ level_index + 1 < NumLevels
       THEN [recorded EXCEPT ![level_index + 1] = UNLOCKED]
       ELSE recorded

\* complete_level(level_index, level_report), the report's final_status given
complete_level(level_index, final_status) ==
    /\ IF learning_session = None \/ level_index \notin Levels
       THEN /\ UNCHANGED learning_session
            /\ last' = [NoCall EXCEPT !.op = "complete_level", !.domain = Some(level_index),
                                      !.domain_status = final_status,
                                      !.raised = "ValueError"]
       ELSE LET session == The(learning_session)
                statuses == completed_statuses(session.level_statuses, level_index,
                                               final_status)
            IN /\ learning_session' =
                      Some([session EXCEPT
                               !.history = Append(@, [final_status |-> final_status]),
                               !.level_statuses = statuses])
               /\ last' = [NoCall EXCEPT !.op = "complete_level",
                                         !.domain = Some(level_index),
                                         !.domain_status = final_status,
                                         !.status_before = session.level_statuses[level_index],
                                         !.result = IF all_levels_completed(statuses)
                                                    THEN "True" ELSE "False"]
    /\ budget' = [budget EXCEPT !.answers = @ + 1]
    /\ UNCHANGED AssessmentVars

\* LevelFlowManager.reset_session()
reset_learning_session ==
    /\ learning_session' = None
    /\ last' = [NoCall EXCEPT !.op = "LevelFlowManager.reset_session"]
    /\ budget' = [budget EXCEPT !.resets = @ + 1]
    /\ UNCHANGED AssessmentVars

\* ------------------------------------ the engine, called on its own

\* ImprovedAdaptiveDifficultyEngine(initial_difficulty)
EngineNew(initial_difficulty) ==
    /\ engine = None
    /\ engine' = Some(NewEngine(initial_difficulty))
    /\ last' = [NoCall EXCEPT !.op = "ImprovedAdaptiveDifficultyEngine"]
    /\ UNCHANGED <<domain_list, assessment_app_instance, learning_session, overall_score, domain_assessments, current_domain_index,
                   current_domain_assessment, difficulty_engine, confidence_metrics,
                   current_question, question_start_time, domain_progress, budget>>

\* engine.update_difficulty(is_correct, response_time, confidence)
EngineUpdate(is_correct, response_time, confidence, cost) ==
    /\ engine # None
    /\ budget' = [budget EXCEPT !.answers = @ + 1, !.deviations = @ + cost]
    /\ \E update \in {update_difficulty(The(engine), is_correct, response_time, confidence)} :
          /\ engine' = Some(update.self)
          /\ last' = [NoCall EXCEPT
                         !.op = "update_difficulty",
                         !.is_correct = is_correct,
                         !.response_time = Some(response_time),
                         !.confidence = Some(confidence),
                         !.adjustment = IF update.raises THEN 0 ELSE update.adjustment,
                         !.raised = IF update.raises THEN "ValueError" ELSE "None",
                         !.result = IF update.raises THEN "None" ELSE "ok"]
    /\ UNCHANGED <<domain_list, assessment_app_instance, learning_session, overall_score, domain_assessments, current_domain_index,
                   current_domain_assessment, difficulty_engine, confidence_metrics,
                   current_question, question_start_time, domain_progress>>

\* engine.confidence_engine.calibration_engine.get_calibrated_confidence(raw_confidence)
Calibrated(raw_confidence) ==
    /\ engine # None
    /\ last' = [NoCall EXCEPT
                   !.op = "get_calibrated_confidence",
                   !.confidence = Some(raw_confidence),
                   !.returns = Some(get_calibrated_confidence(
                                        The(engine).confidence_engine.calibration_engine,
                                        raw_confidence))]
    /\ UNCHANGED <<engine, domain_list, assessment_app_instance, learning_session, overall_score, domain_assessments, current_domain_index,
                   current_domain_assessment, difficulty_engine, confidence_metrics,
                   current_question, question_start_time, domain_progress, budget>>

\* engine.calculate_system_confidence(is_correct, response_time)
SystemConfidence(is_correct, response_time) ==
    /\ engine # None
    /\ last' = [NoCall EXCEPT
                   !.op = "calculate_system_confidence",
                   !.is_correct = is_correct,
                   !.response_time = Some(response_time),
                   !.returns = Some(calculate_system_confidence(The(engine), is_correct,
                                                                response_time))]
    /\ UNCHANGED <<engine, domain_list, assessment_app_instance, learning_session, overall_score, domain_assessments, current_domain_index,
                   current_domain_assessment, difficulty_engine, confidence_metrics,
                   current_question, question_start_time, domain_progress, budget>>

\* ------------------------------------------------ statistics, asked for

\* QuestionFlowManager.complete_domain_assessment(), called from outside submit_answer
Complete ==
    /\ IF current_domain_assessment = None
       THEN /\ last' = [NoCall EXCEPT !.op = "complete_domain_assessment", !.result = "error"]
            /\ UNCHANGED domain_assessments
       ELSE LET idx == The(current_domain_assessment)
                da == domain_assessments[idx]
                completion == complete_domain_assessment(da)
                call == [NoCall EXCEPT !.op = "complete_domain_assessment",
                                       !.domain = Some(idx)]
            IN /\ domain_assessments' =
                      [domain_assessments EXCEPT ![idx].status = completion.status]
               /\ last' = IF completion.raised THEN [call EXCEPT !.raised = "KeyError"]
                          ELSE IF Len(da.response_history) = 0
                          THEN \* line 257 divides by len(response_history)
                               [call EXCEPT !.raised = "ZeroDivisionError"]
                          ELSE [call EXCEPT !.result = "ok",
                                            !.domain_status = completion.status,
                                            !.returns = Some(Accuracy(da))]
    /\ UNCHANGED <<engine, domain_list, assessment_app_instance, learning_session, overall_score, current_domain_index,
                   current_domain_assessment, difficulty_engine, confidence_metrics,
                   current_question, question_start_time, domain_progress, budget>>

\* the mean accuracy of the attempted domains, weighted by estimated difficulty,
\* in 1/S points
calculate_overall_score(assessments, domains) ==
    LET attempted(k) == assessments[k - 1].questions_attempted > 0
        total_weighted_score ==
            SumSeq([k \in 1..NumDomains |->
                       IF attempted(k) THEN (Accuracy(assessments[k - 1]) \div 10) * domains[k - 1]
                       ELSE 0])
        total_weight ==
            SumSeq([k \in 1..NumDomains |-> IF attempted(k) THEN domains[k - 1] ELSE 0])
    IN IF total_weight > 0 THEN (total_weighted_score \div total_weight) * 10 ELSE 0

\* AssessmentFlowManager.calculate_overall_score()
OverallScore ==
    /\ overall_score' = calculate_overall_score(domain_assessments, domain_list)
    /\ last' = [NoCall EXCEPT !.op = "calculate_overall_score",
                              !.returns = Some(overall_score')]
    /\ UNCHANGED <<engine, domain_list, assessment_app_instance, learning_session, domain_assessments, current_domain_index,
                   current_domain_assessment, difficulty_engine, confidence_metrics,
                   current_question, question_start_time, domain_progress, budget>>

\* ------------------------------------------------------ the specifications

\* After start_assessment_session: every domain NOT_STARTED at its estimated
\* difficulty, a QuestionFlowManager as constructed, and no engine of its own yet.
Init ==
    /\ engine = None
    /\ domain_list \in [Domains -> InitDifficulties]
    /\ domain_assessments = [i \in Domains |-> NewDomainAssessment(domain_list[i])]
    /\ current_domain_index = 0
    /\ overall_score = 0
    /\ current_domain_assessment = None
    /\ difficulty_engine = None
    /\ confidence_metrics = None
    /\ current_question = None
    /\ question_start_time = None
    /\ domain_progress = 0
    /\ assessment_app_instance = NoApp
    /\ learning_session = None
    /\ last = NoCall
    /\ budget = NoBudget

\* The user's usual answer: the right option of the mock question, given fast and
\* with confidence, followed by the first question of the pool. An answer costs
\* one deviation for each of these it departs from.
DefaultQuestion == CHOOSE q \in QuestionPool : q.knowledge_tag = "Fundamentals"

Differs(a, b) == IF a = b THEN 0 ELSE 1

SubmitCost(answer_index, confidence, elapsed, q) ==
    Differs(answer_index,
            IF current_question = None THEN DefaultQuestion.correct_answer_index
            ELSE The(current_question).correct_answer_index)
    + Differs(confidence, SetMax(Confidences))
    + Differs(elapsed, SetMin(Times))
    + Differs(q, DefaultQuestion)

\* Both managers under every order of their calls, a few calls deep.
Next ==
    \/ \E idx \in Domains : budget.starts < MaxStarts /\ AStart(idx)
    \/ \E idx \in Domains : budget.starts < MaxStarts /\ QStart(idx)
    \/ \E idx \in Domains : AComplete(idx, 0)
    \/ \E q \in QuestionPool : budget.generates < MaxGenerates /\ Generate(q)
    \/ \E answer_index \in AnswerIndices, confidence \in Confidences, elapsed \in Times,
          q \in QuestionPool :
           /\ budget.answers < MaxAnswers
           /\ budget.deviations + SubmitCost(answer_index, confidence, elapsed, q)
                  <= MaxDeviations
           /\ Submit(answer_index, confidence, elapsed, q,
                     SubmitCost(answer_index, confidence, elapsed, q))
           /\ UNCHANGED assessment_app_instance
    \/ budget.resets < MaxResets /\ Reset

Spec == Init /\ [][Next]_vars

\* One long run: the user's usual answers, and a caller of the engine who reports
\* correct, fast, confident answers, each departing from that in at most
\* MaxRunDeviations places (a completion from outside counts as one).

UpdateCost(is_correct, response_time, confidence) ==
    Differs(is_correct, TRUE)
    + Differs(response_time, SetMin(Times))
    + Differs(confidence, SetMax(EngineConfidences \ {20}))

InitRun == Init /\ \A i \in Domains : domain_list[i] = domain_list[0]

NextRun ==
    \/ engine = None /\ budget.starts = 0 /\ QStart(0)
    \/ ~NoSession /\ current_question = None /\ Generate(DefaultQuestion)
    \/ budget.deviations < MaxRunDeviations /\ AComplete(0, 1)
    \/ \E answer_index \in AnswerIndices, confidence \in Confidences, elapsed \in Times,
          q \in QuestionPool :
           /\ ~NoActiveQuestion
           /\ budget.answers < MaxRunAnswers
           /\ budget.deviations + SubmitCost(answer_index, confidence, elapsed, q)
                  <= MaxRunDeviations
           /\ Submit(answer_index, confidence, elapsed, q,
                     SubmitCost(answer_index, confidence, elapsed, q))
           /\ UNCHANGED assessment_app_instance
    \/ \E d \in InitDifficulties : current_domain_assessment = None /\ EngineNew(d)
    \/ \E is_correct \in BOOLEAN, response_time \in Times, confidence \in EngineConfidences :
           /\ budget.answers < MaxEngineCalls
           /\ budget.deviations + UpdateCost(is_correct, response_time, confidence)
                  <= MaxRunDeviations
           /\ EngineUpdate(is_correct, response_time, confidence,
                           UpdateCost(is_correct, response_time, confidence))

SpecRun == InitRun /\ [][NextRun]_vars

\* From a cold start: an engine driven by a steady run of answers (the same outcome
\* and time at every call, the confidence changing at most MaxRunDeviations times),
\* or a session whose generator may fail and whose statistics are asked for
\* at any time.

SteadyDifficulties == {MinDifficulty, 50, MaxDifficulty}

SteadyTimes == {10, 120}

SteadyConfidences == {0, 6, 18, 20}

CalibratedConfidences == {18}

InitCold == Init /\ \A i \in Domains : domain_list[i] = MaxDifficulty

SwitchCost(e, is_correct, response_time, confidence) ==
    IF Len(e.recent_performance) = 0 THEN 0
    ELSE Differs(confidence,
                 e.confidence_engine.confidence_history[
                     Len(e.confidence_engine.confidence_history)])

Steady(e, is_correct, response_time) ==
    IF Len(e.recent_performance) = 0 THEN TRUE
    ELSE /\ e.recent_performance[Len(e.recent_performance)] = is_correct
         /\ e.recent_response_times[Len(e.recent_response_times)] = response_time

NextCold ==
    \/ \E d \in SteadyDifficulties : current_domain_assessment = None /\ EngineNew(d)
    \/ \E is_correct \in BOOLEAN, response_time \in SteadyTimes,
          confidence \in SteadyConfidences :
           /\ engine # None
           /\ budget.answers < MaxSteadyCalls
           /\ Steady(The(engine), is_correct, response_time)
           /\ budget.deviations + SwitchCost(The(engine), is_correct, response_time, confidence)
                  <= MaxRunDeviations
           /\ EngineUpdate(is_correct, response_time, confidence,
                           SwitchCost(The(engine), is_correct, response_time, confidence))
    \/ \E raw_confidence \in CalibratedConfidences : Calibrated(raw_confidence)
    \/ \E is_correct \in BOOLEAN :
           budget.answers <= MaxColdAnswers /\ SystemConfidence(is_correct, SetMin(SteadyTimes))
    \/ engine = None /\ budget.starts = 0 /\ QStart(0)
    \/ \E q \in {DefaultQuestion, GenerationError} :
           engine = None /\ budget.generates < MaxColdGenerates /\ Generate(q)
    \/ \E answer_index \in AnswerIndices, confidence \in Confidences, elapsed \in Times,
          q \in GeneratorOutcomes :
           /\ ~NoActiveQuestion
           /\ budget.answers < MaxColdAnswers
           /\ budget.deviations + SubmitCost(answer_index, confidence, elapsed, q)
                  <= MaxRunDeviations
           /\ Submit(answer_index, confidence, elapsed, q,
                     SubmitCost(answer_index, confidence, elapsed, q))
           /\ UNCHANGED assessment_app_instance
    \/ engine = None /\ Complete
    \/ engine = None /\ OverallScore

SpecCold == InitCold /\ [][NextCold]_vars

\* One session kept going past the capacity of every history: the usual answer,
\* but for at most MaxLongDeviations answers that are wrong or slow. (From 100%
\* progress on, every submit_answer still records the answer before it ends in the
\* KeyError of complete_domain_assessment.)

LongAnswerIndices == {DefaultQuestion.correct_answer_index, DefaultQuestion.correct_answer_index + 1}

LongTimes == {SetMin(Times), SetMax(Times)}

LongCost(answer_index, elapsed) ==
    Differs(answer_index, DefaultQuestion.correct_answer_index)
    + Differs(elapsed, SetMin(Times))

InitLong == Init /\ \A i \in Domains : domain_list[i] = MinDifficulty

NextLong ==
    \/ budget.starts = 0 /\ QStart(0)
    \/ ~NoSession /\ current_question = None /\ Generate(DefaultQuestion)
    \/ \E answer_index \in LongAnswerIndices, elapsed \in LongTimes :
           /\ ~NoActiveQuestion
           /\ budget.answers < MaxLongAnswers
           /\ budget.deviations + LongCost(answer_index, elapsed) <= MaxLongDeviations
           /\ Submit(answer_index, SetMax(Confidences), elapsed, DefaultQuestion,
                     LongCost(answer_index, elapsed))
           /\ UNCHANGED assessment_app_instance

SpecLong == InitLong /\ [][NextLong]_vars

\* The API application: domains started and answers submitted through
\* KnowledgeAssessmentApp only, the answers departing from the usual one in at most
\* MaxRunDeviations places (a failure of the generator and a start after the first
\* count as one each).

MaxAppStarts == 2

AppStartCost(q) == Differs(q, DefaultQuestion) + Differs(budget.starts, 0)

NextApp ==
    \/ \E idx \in Domains, q \in GeneratorOutcomes :
           /\ budget.starts < MaxAppStarts
           /\ budget.deviations + AppStartCost(q) <= MaxRunDeviations
           /\ AppStart(idx, q, AppStartCost(q))
    \/ \E answer_index \in AnswerIndices, confidence \in Confidences, elapsed \in Times,
          q \in GeneratorOutcomes :
           /\ budget.answers < MaxRunAnswers
           /\ budget.deviations + SubmitCost(answer_index, confidence, elapsed, q)
                  <= MaxRunDeviations
           /\ AppSubmit(answer_index, confidence, elapsed, q,
                        SubmitCost(answer_index, confidence, elapsed, q))

SpecApp == InitRun /\ [][NextApp]_vars

\* The level flow: sessions started, levels started and completed in any order.

MaxLevelSessions == 2

MaxLevelStarts == 2

MaxLevelReports == 4

NextLevel ==
    \/ budget.starts < MaxLevelSessions /\ start_new_learning_session
    \/ \E level_index \in Levels : budget.generates < MaxLevelStarts /\ start_level(level_index)
    \/ \E level_index \in Levels \cup {NumLevels}, final_status \in FinalStatuses :
           budget.answers < MaxLevelReports /\ complete_level(level_index, final_status)
    \/ budget.resets < 1 /\ learning_session # None /\ reset_learning_session

SpecLevel == InitCold /\ [][NextLevel]_vars

\* ------------------------------------------------------------ properties

\* everything the two managers and the engine hold
ProgState ==
    <<engine, domain_list, domain_assessments, current_domain_index, overall_score,
      current_domain_assessment, difficulty_engine, confidence_metrics,
      current_question, question_start_time, domain_progress>>

StartCalls == {"start_domain_assessment", "AssessmentFlowManager.start_domain_assessment"}

InRange(lo, hi, x) == lo <= x /\ x <= hi

\* C1: the difficulty of an engine stays within [1,100] after every
\* update_difficulty call, whether the engine is called directly or by submit_answer,
\* and so does the integer copy submit_answer writes to the DomainAssessment.
DifficultyInRange ==
    /\ engine # None =>
           InRange(MinDifficulty * S, MaxDifficulty * S, The(engine).current_difficulty)
    /\ difficulty_engine # None =>
           InRange(MinDifficulty * S, MaxDifficulty * S,
                   The(difficulty_engine).current_difficulty)
    /\ \A i \in Domains :
           InRange(MinDifficulty, MaxDifficulty, domain_assessments[i].current_difficulty)

\* an answer that pushed the difficulty upwards left it, and its copy, at the top
DifficultyAtTop ==
    /\ last.op = "submit_answer"
    /\ last.adjustment > 0
    /\ The(difficulty_engine).current_difficulty = MaxDifficulty * S
    /\ domain_assessments[The(last.domain)].current_difficulty = MaxDifficulty

\* C2: the adjustment calculate_enhanced_adjustment returns is within [-15,+15],
\* and no update_difficulty call, direct or by submit_answer, moves the difficulty
\* by more than 15.
AdjustmentBounded ==
    [][/\ InRange(0 - MaxDifficultyChange * S, MaxDifficultyChange * S, last'.adjustment)
       /\ (last'.op = "update_difficulty") =>
              Abs(The(engine').current_difficulty - The(engine).current_difficulty)
                  <= MaxDifficultyChange * S
       /\ (last'.op = "submit_answer" /\ ~NoActiveQuestion) =>
              Abs(The(difficulty_engine').current_difficulty
                  - The(difficulty_engine).current_difficulty)
                  <= MaxDifficultyChange * S]_vars

\* a direct call whose adjustment is more than 12 points
LargeAdjustment == last.op = "update_difficulty" /\ Abs(last.adjustment) > 12 * S

\* C3: within one domain session no submit_answer lowers domain_progress, and
\* domain_progress is always within [0,100].
ProgressMonotone ==
    [][/\ (last'.op = "submit_answer") => domain_progress' >= domain_progress
       /\ InRange(0, 100 * S, domain_progress')]_vars

\* an answer brought the progress to exactly 100 from below
ProgressFull ==
    /\ last.op = "submit_answer"
    /\ last.progress_increment > 0
    /\ domain_progress = 100 * S

\* the inputs calculate_enhanced_progress_increment is tried on in every state: the
\* ends of each range, and the two sides of the low-confidence threshold
IncrementConfidences == {0, 7, 8, 20}

IncrementDifficulties == {MinDifficulty, MaxDifficulty}

IncrementTimes == {0, SetMax(Times)}

\* C4: calculate_enhanced_progress_increment returns a value within [0,20]
\* percentage points: for the answer just submitted, and for every correctness,
\* confidence, question difficulty and response time on the confidence data held.
IncrementInRange ==
    /\ (last.op = "submit_answer") => InRange(0, MaxIncrement * S, last.progress_increment)
    /\ confidence_metrics # None =>
           \A is_correct \in BOOLEAN, confidence \in IncrementConfidences,
              difficulty \in IncrementDifficulties, response_time \in IncrementTimes :
               InRange(0, MaxIncrement * S,
                       calculate_enhanced_progress_increment(
                           The(confidence_metrics).confidence_accuracy_data,
                           is_correct, confidence, difficulty, response_time))

\* a wrong answer given with low system confidence earned the honesty reward
HonestyRewarded ==
    /\ last.op = "submit_answer"
    /\ last.result = "ok"
    /\ ~last.is_correct
    /\ last.progress_increment > 0

\* C5: submit_answer with an answer_index that is no option of the current question
\* returns an error and changes nothing.
OutOfRangeRejected ==
    [][(/\ last'.op = "submit_answer"
        /\ ~NoActiveQuestion
        /\ The(last'.answer_index) \notin 0..(The(current_question).options - 1))
       => (last'.result = "error" /\ UNCHANGED ProgState)]_vars

\* C6: submit_answer with no domain assessment started or no question outstanding
\* (as after reset_session) returns an error and changes nothing; generate_question
\* with no domain assessment returns None and changes nothing.
NoSessionNoEffect ==
    [][/\ (/\ last'.op = "submit_answer"
           /\ (current_domain_assessment = None \/ current_question = None))
          => (last'.result = "error" /\ last'.raised = "None" /\ UNCHANGED ProgState)
       /\ (last'.op = "generate_question" /\ current_domain_assessment = None)
          => (last'.result = "None" /\ UNCHANGED ProgState)]_vars

\* an answer was refused after a session had been started and reset
RefusedAfterReset ==
    /\ last.op = "submit_answer"
    /\ last.result = "error"
    /\ budget.resets > 0
    /\ budget.starts > 0
    /\ current_domain_assessment = None

\* C7: the submit_answer that brings the progress to 100 returns normally with
\* domain_complete true and leaves the domain MASTERED, COMPLETED or STRUGGLING; a
\* submit_answer that leaves the progress below 100 leaves a domain in progress
\* IN_PROGRESS.
CompletesAtFullProgress ==
    [][(last'.op = "submit_answer" /\ ~NoActiveQuestion)
       => IF domain_progress' >= 100 * S
          THEN /\ last'.raised = "None"
               /\ last'.domain_complete
               /\ domain_assessments'[The(current_domain_assessment)].status
                      \in TerminalStatuses
          ELSE domain_assessments[The(current_domain_assessment)].status = IN_PROGRESS
               => domain_assessments'[The(current_domain_assessment)].status
                      = IN_PROGRESS]_vars

\* C8: after the submit_answer that ends a domain, the status is the class of the
\* accuracy questions_correct / questions_attempted: MASTERED from 90, COMPLETED
\* from 70, STRUGGLING below.
FinalStatusByAccuracy ==
    (last.op = "submit_answer" /\ last.domain # None /\ domain_progress >= 100 * S)
    => domain_assessments[The(last.domain)].status
           = Classify(Accuracy(domain_assessments[The(last.domain)]))

StatusMonotone ==
    [][\A i \in Domains :
           LET before == domain_assessments[i].status
               after == domain_assessments'[i].status
           IN /\ before # NOT_STARTED => after # NOT_STARTED
              /\ before = NOT_STARTED => after \in {NOT_STARTED, IN_PROGRESS}
              /\ (before \in TerminalStatuses /\ after # before)
                 => (/\ after = IN_PROGRESS
                     /\ last'.op \in StartCalls
                     /\ last'.domain = Some(i))]_vars

\* a finished domain was started again and is in progress
Restarted ==
    /\ last.op \in StartCalls
    /\ last.status_before \in TerminalStatuses
    /\ domain_assessments[The(last.domain)].status = IN_PROGRESS

\* C11: once a domain has 10 attempts, an answer that leaves accuracy at or above
\* the mastery threshold with difficulty at least 80, or accuracy at or below the
\* struggle threshold with difficulty at most 30, is reported with domain_complete
\* although the progress is below 100.
EarlyCompletion ==
    [][(/\ last'.op = "submit_answer"
        /\ ~NoActiveQuestion
        /\ domain_progress' < 100 * S
        /\ LET da == domain_assessments'[The(current_domain_assessment)]
           IN /\ da.questions_attempted >= 10
              /\ \/ /\ Accuracy(da) >= MasteryThreshold * S
                    /\ da.current_difficulty >= 80
                 \/ /\ Accuracy(da) <= StrugglingThreshold * S
                    /\ da.current_difficulty <= 30)
       => last'.domain_complete]_vars

\* C12: no knowledge tag is in both knowledge_gaps and mastery_areas of a domain.
GapsAndMasteryDisjoint ==
    \A i \in Domains :
        \A g \in 1..Len(domain_assessments[i].knowledge_gaps),
           m \in 1..Len(domain_assessments[i].mastery_areas) :
            domain_assessments[i].knowledge_gaps[g] # domain_assessments[i].mastery_areas[m]

\* C13: in every domain 0 <= questions_correct <= questions_attempted, whatever
\* the calls made, a second start of the domain included.
CorrectAtMostAttempted ==
    \A i \in Domains :
        /\ 0 <= domain_assessments[i].questions_correct
        /\ domain_assessments[i].questions_correct <= domain_assessments[i].questions_attempted

\* a domain with one right and one wrong answer was started again and kept both counts
CountersKeptOnRestart ==
    /\ last.op = "start_domain_assessment"
    /\ domain_assessments[The(last.domain)].questions_correct = 1
    /\ domain_assessments[The(last.domain)].questions_attempted = 2

\* the answers an engine has been given since it was made: all of one outcome,
\* all at one of the times, all with one of the confidences
RunOf(e, is_correct, times, confidences) ==
    /\ Len(e.recent_performance) > 0
    /\ (IF is_correct THEN e.consecutive_correct ELSE e.consecutive_incorrect)
           = Len(e.confidence_engine.confidence_history)
    /\ \A i \in 1..Len(e.recent_response_times) : e.recent_response_times[i] \in times
    /\ \A i \in 1..Len(e.confidence_engine.confidence_history) :
           e.confidence_engine.confidence_history[i] \in confidences

\* under 0.7 of the expected time at any difficulty, over 1.5 of it at any difficulty
FastTimes == {t \in SteadyTimes : t * S * 10 < 7 * ExpectedTime(MinDifficulty * S)}

SlowTimes == {t \in SteadyTimes : t * S * 10 > 15 * ExpectedTime(MaxDifficulty * S)}

\* over 0.7 (line 192), under 0.4 (line 194)
HighConfidences == {c \in SteadyConfidences : c > 14}

LowConfidences == {c \in SteadyConfidences : c < 8}

\* C15: a run of correct, fast, high-confidence answers raises the difficulty at
\* every step until it is 100, which it is after at most 10 steps, and it stays
\* 100; a run of incorrect, slow, low-confidence answers lowers it at every step
\* until it is 1, which it is after at most 17 steps, and it stays 1.
SteadyRunSaturates ==
    [][(last'.op = "update_difficulty" /\ engine # None) =>
          LET before == The(engine).current_difficulty
              after == The(engine').current_difficulty
              steps == Len(The(engine').confidence_engine.confidence_history)
          IN /\ RunOf(The(engine'), TRUE, FastTimes, HighConfidences) =>
                   /\ (after > before \/ (before = MaxDifficulty * S /\ after = before))
                   /\ (steps >= 10 => after = MaxDifficulty * S)
             /\ RunOf(The(engine'), FALSE, SlowTimes, LowConfidences) =>
                   /\ (after < before \/ (before = MinDifficulty * S /\ after = before))
                   /\ (steps >= 17 => after = MinDifficulty * S)]_vars

\* sixteen incorrect, slow, low-confidence answers, each of which lowered the
\* difficulty, and it is not 1 yet
StillFallingAtSixteen ==
    /\ last.op = "update_difficulty"
    /\ engine # None
    /\ RunOf(The(engine), FALSE, SlowTimes, LowConfidences)
    /\ Len(The(engine).confidence_engine.confidence_history) = 16
    /\ The(engine).current_difficulty > MinDifficulty * S

\* the engine made at difficulty 50 after n updates (correct, 10 s, confidence 0.9)
RECURSIVE ExampleRun(_)
ExampleRun(n) ==
    IF n = 0 THEN NewEngine(50) ELSE update_difficulty(ExampleRun(n - 1), TRUE, 10, 18).self

\* the engine is the one of the example after n updates
InExample(n) ==
    /\ engine # None
    /\ Len(The(engine).confidence_engine.confidence_history) = n
    /\ The(engine) = ExampleRun(n)

\* C16 as stated: from difficulty 50, one update (correct, 10 s, confidence 0.9)
\* gives more than 50, five give 100 and the sixth leaves 100.
ExampleTopAfterFive ==
    /\ InExample(1) => The(engine).current_difficulty > 50 * S
    /\ InExample(5) => The(engine).current_difficulty = MaxDifficulty * S
    /\ InExample(6) => The(engine).current_difficulty = MaxDifficulty * S

\* C16 amended: one update gives more than 50, five give less than 100, six give
\* 100 and the seventh leaves 100.
ExampleTopAfterSix ==
    /\ InExample(1) => The(engine).current_difficulty > 50 * S
    /\ InExample(5) => The(engine).current_difficulty < MaxDifficulty * S
    /\ InExample(6) => The(engine).current_difficulty = MaxDifficulty * S
    /\ InExample(7) => The(engine).current_difficulty = MaxDifficulty * S

ExampleAtTop == InExample(6) /\ last.op = "update_difficulty"

\* C17: get_calibrated_confidence leaves the engine as it is, gives the same value
\* when called again, and with fewer than 10 samples gives back any raw confidence.
CalibratedReadsOnly ==
    [][last'.op = "get_calibrated_confidence" =>
          /\ engine' = engine
          /\ (last.op = "get_calibrated_confidence" /\ last.confidence = last'.confidence)
                 => last'.returns = last.returns
          /\ Len(The(engine).confidence_engine.calibration_engine.confidence_accuracy_pairs)
                 < MinCalibrationSamples
                 => /\ last'.returns = Some(ConfValue(The(last'.confidence)))
                    /\ \A raw \in SteadyConfidences :
                          get_calibrated_confidence(
                              The(engine).confidence_engine.calibration_engine, raw)
                              = ConfValue(raw)]_vars

\* asked twice with nine samples, three of them wrong at the confidence asked about
CalibratedTwice ==
    /\ last.op = "get_calibrated_confidence"
    /\ last.returns = Some(ConfValue(18))
    /\ Len(The(engine).confidence_engine.calibration_engine.confidence_accuracy_pairs) = 9
    /\ BinCount(The(engine).confidence_engine.calibration_engine.confidence_accuracy_pairs,
                BinKey(18)) >= MinSamplesPerBin
    /\ ~The(engine).recent_performance[1]

\* what a wrong answer earns when the confidence is under 0.4, as `reward` states it
WrongAnswerEarns(reward) ==
    /\ (last.op = "submit_answer" /\ last.result = "ok" /\ ~last.is_correct) =>
           last.progress_increment = IF The(last.system_confidence) < 8 THEN reward ELSE 0
    /\ confidence_metrics # None =>
           \A confidence \in IncrementConfidences \cup {4}, difficulty \in IncrementDifficulties,
              response_time \in IncrementTimes :
               calculate_enhanced_progress_increment(
                   The(confidence_metrics).confidence_accuracy_data,
                   FALSE, confidence, difficulty, response_time)
                   = IF confidence < 8 THEN reward ELSE 0

\* C18 as stated: the increment of an incorrect answer is the configured honesty
\* reward when the confidence is under 0.4 (0.2 for one) and 0 otherwise.
WrongAnswerEarnsReward == WrongAnswerEarns(HonestyReward * S)

\* C18 amended: the increment of an incorrect answer is the configured honesty
\* reward as a percentage of base points x maximum questions when the confidence
\* is under 0.4, and 0 otherwise: no base points in either case.
WrongAnswerEarnsRewardShare ==
    WrongAnswerEarns((HonestyReward * S * 100) \div (BasePoints * MaxQuestionsPerDomain))

\* a wrong answer at system confidence 0.3 earned one percentage point
WrongAnswerRewarded ==
    /\ last.op = "submit_answer"
    /\ last.result = "ok"
    /\ ~last.is_correct
    /\ last.system_confidence = Some(6)
    /\ last.progress_increment = S

\* C19: when the generator raises inside generate_question, called directly or by
\* submit_answer for the next question, the caller gets None for the question, and
\* the history, the counters, the progress and the difficulty are as they were
\* before the generator was called: unchanged by generate_question, the answer
\* recorded once by submit_answer. A generate_question after it returns a
\* question of the current difficulty.
GenerationFailureKeepsState ==
    [][LET idx == The(current_domain_assessment)
           da == domain_assessments[idx]
           da_after == domain_assessments'[idx]
       IN /\ (last'.generator_raised /\ last'.op = "generate_question") =>
                /\ last'.result = "None"
                /\ da_after = da
                /\ domain_progress' = domain_progress
                /\ difficulty_engine' = difficulty_engine
          /\ (last'.generator_raised /\ last'.op = "submit_answer") =>
                /\ last'.result = "ok"
                /\ last'.next_question = None
                /\ ~last'.domain_complete
                /\ Len(da_after.response_history) = Len(da.response_history) + 1
                /\ da_after.questions_attempted = da.questions_attempted + 1
                /\ da_after.questions_correct
                       = da.questions_correct + (IF last'.is_correct THEN 1 ELSE 0)
                /\ domain_progress' = advance_progress(domain_progress, last'.progress_increment)
                /\ The(difficulty_engine').current_difficulty
                       = Clamp(MinDifficulty * S, MaxDifficulty * S,
                               The(difficulty_engine).current_difficulty + last'.adjustment)
                /\ da_after.current_difficulty = Trunc(The(difficulty_engine').current_difficulty)
          /\ (last.generator_raised /\ last'.op = "generate_question"
                  /\ ~last'.generator_raised) =>
                /\ last'.result = "Question"
                /\ current_question' = last'.next_question
                /\ The(current_question').difficulty_level
                       = Trunc(The(difficulty_engine).current_difficulty)
                /\ da_after = da
                /\ domain_progress' = domain_progress]_vars

\* the generator raised when submit_answer asked for the next question
NextQuestionFailed ==
    /\ last.op = "submit_answer"
    /\ last.generator_raised
    /\ domain_progress > 0

\* C20: the statistics of an empty record are returned, none raises:
\* complete_domain_assessment on a domain with no attempt and no response returns
\* accuracy 0 and a status, calculate_overall_score with no attempted domain
\* returns 0, and get_confidence_quality_score on fewer than 10 samples is 0.5.
DegenerateStatisticsReturn ==
    /\ (/\ last.op = "complete_domain_assessment"
        /\ last.domain # None
        /\ domain_assessments[The(last.domain)].questions_attempted = 0
        /\ Len(domain_assessments[The(last.domain)].response_history) = 0)
       => (/\ last.raised = "None"
           /\ last.returns = Some(0)
           /\ last.domain_status \in TerminalStatuses)
    /\ (/\ last.op = "calculate_overall_score"
        /\ \A i \in Domains : domain_assessments[i].questions_attempted = 0)
       => (last.raised = "None" /\ last.returns = Some(0))
    /\ (/\ confidence_metrics # None
        /\ Len(The(confidence_metrics).confidence_accuracy_data) < MinQualitySamples)
       => get_confidence_quality_score(The(confidence_metrics).confidence_accuracy_data)
              = S \div 2

\* A domain session by its inputs alone: what start_domain_assessment and the
\* first generate_question leave of a domain of this difficulty ...
ColdSession(initial_difficulty) ==
    [difficulty_engine |-> NewEngine(initial_difficulty),
     data |-> <<>>,
     domain_progress |-> 0,
     current_difficulty |-> initial_difficulty,
     status |-> IN_PROGRESS,
     questions_attempted |-> 0,
     questions_correct |-> 0,
     question_difficulty |-> initial_difficulty]

\* ... and what submit_answer makes of it (lines 95-156), `update` being the call of
\* update_difficulty and `progress` the progress of line 115
session_after(run, is_correct, data, update, progress) ==
    IF update.raises
    THEN [run EXCEPT !.difficulty_engine = update.self,
                     !.data = data,
                     !.questions_attempted = @ + 1,
                     !.questions_correct = IF is_correct THEN @ + 1 ELSE @]
    ELSE [difficulty_engine |-> update.self,
          data |-> data,
          domain_progress |-> progress,
          current_difficulty |-> Trunc(update.self.current_difficulty),
          status |->
              IF progress >= 100 * S
              THEN complete_domain_assessment(
                       [status |-> run.status,
                        questions_attempted |-> run.questions_attempted + 1,
                        questions_correct |->
                            run.questions_correct + (IF is_correct THEN 1 ELSE 0)]).status
              ELSE run.status,
          questions_attempted |-> run.questions_attempted + 1,
          questions_correct |-> run.questions_correct + (IF is_correct THEN 1 ELSE 0),
          question_difficulty |->
              IF progress >= 100 * S THEN run.question_difficulty
              ELSE Trunc(update.self.current_difficulty)]

session_answered(run, is_correct, response_time, system_confidence, data) ==
    session_after(run, is_correct, data,
                  update_difficulty(run.difficulty_engine, is_correct, response_time,
                                    system_confidence),
                  advance_progress(run.domain_progress,
                                   calculate_enhanced_progress_increment(
                                       data, is_correct, system_confidence,
                                       run.question_difficulty, response_time)))

session_step(run, is_correct, response_time, system_confidence) ==
    session_answered(run, is_correct, response_time, system_confidence,
                     add_data_point(run.data, system_confidence, is_correct))

session_next(run, response) ==
    session_step(run, response.is_correct, response.response_time,
                 calculate_system_confidence(run.difficulty_engine, response.is_correct,
                                             response.response_time))

\* the session after the first n answers of a history, from a cold start (the
\* session before the n-th answer is worked out first, then the answer applied)
RECURSIVE Replay(_, _, _)
Replay(initial_difficulty, history, n) ==
    IF n = 0 THEN ColdSession(initial_difficulty)
    ELSE LET before == Replay(initial_difficulty, history, n - 1)
         IN IF before.questions_attempted = n - 1 THEN session_next(before, history[n])
            ELSE before

StartLeavesFreshSession ==
    (last.op = "start_domain_assessment")
    => LET d == domain_assessments[The(last.domain)]
           e == The(difficulty_engine)
       IN /\ current_domain_assessment = last.domain
          /\ e.current_difficulty = d.current_difficulty * S
          /\ e.consecutive_correct = 0
          /\ e.consecutive_incorrect = 0
          /\ e.recent_performance = <<>>
          /\ e.recent_response_times = <<>>
          /\ e.confidence_engine.calibration_engine.confidence_accuracy_pairs = <<>>
          /\ e.confidence_engine.confidence_history = <<>>
          /\ e.confidence_engine.accuracy_history = <<>>
          /\ The(confidence_metrics).confidence_accuracy_data = <<>>
          /\ domain_progress = 0
          /\ d.status = IN_PROGRESS

\* a domain was started over a session that had answers, progress and a question
StartedOverUsedSession ==
    /\ last.op = "start_domain_assessment"
    /\ budget.answers > 0
    /\ current_question # None
    /\ \E i \in Domains : domain_assessments[i].questions_attempted > 0

\* C22: domains unlock in sequence. Domain 0 is always accessible, and for i > 0
\* can_access_domain(i) is true exactly when domain i-1 is COMPLETED, MASTERED or
\* STRUGGLING; AssessmentFlowManager.start_domain_assessment(i) returns True exactly
\* on an accessible domain, and on an inaccessible one it returns False and changes
\* no status and not current_domain_index.
SequentialUnlock ==
    [][/\ can_access_domain(0)
       /\ \A i \in Domains \ {0} :
              can_access_domain(i)
                  <=> domain_assessments[i - 1].status \in {COMPLETED, MASTERED, STRUGGLING}
       /\ (last'.op = "AssessmentFlowManager.start_domain_assessment")
          => LET i == The(last'.domain)
                 open == i = 0 \/ domain_assessments[i - 1].status
                                      \in {COMPLETED, MASTERED, STRUGGLING}
             IN /\ last'.result = (IF open THEN "True" ELSE "False")
                /\ ~open => /\ \A k \in Domains :
                                   domain_assessments'[k].status = domain_assessments[k].status
                            /\ current_domain_index' = current_domain_index]_vars

\* the start of the second domain was refused while the first was in progress
SecondDomainRefused ==
    /\ last.op = "AssessmentFlowManager.start_domain_assessment"
    /\ last.domain = Some(1)
    /\ last.result = "False"
    /\ domain_assessments[0].status = IN_PROGRESS
    /\ domain_assessments[1].status = NOT_STARTED

\* C23: submit_answer returns a next question only if the domain is not yet
\* complete. A result with domain_complete true, and every answer that brought the
\* progress to 100, has no next question and made no generator call; a result with
\* domain_complete false came with exactly one generator call, whose question (if
\* the generator did not fail) is the next question.
NextQuestionOnlyIfIncomplete ==
    (last.op = "submit_answer" /\ last.domain # None)
    => /\ (last.domain_complete \/ domain_progress >= 100 * S)
          => (last.next_question = None /\ last.generator_calls = 0)
       /\ (last.result = "ok" /\ ~last.domain_complete)
          => /\ last.generator_calls = 1
             /\ domain_progress < 100 * S
             /\ last.next_question = (IF last.generator_raised THEN None ELSE current_question)
       /\ last.next_question # None => ~last.domain_complete

\* the answer that filled the progress got no next question, the answers before it did
LastAnswerWithoutNext ==
    /\ last.op = "submit_answer"
    /\ last.progress_increment > 0
    /\ domain_progress >= 100 * S
    /\ last.generator_calls = 0
    /\ current_question # None
    /\ domain_assessments[The(last.domain)].questions_attempted > 2

\* every outcome an engine has been given, oldest first: the calibration history
\* keeps the last 100 of them
OutcomesOf(e) ==
    [i \in 1..Len(e.confidence_engine.calibration_engine.confidence_accuracy_pairs) |->
        e.confidence_engine.calibration_engine.confidence_accuracy_pairs[i][2]]

\* the number of answers at the end of `outcomes` that have the outcome of the last
RECURSIVE CurrentRun(_)
CurrentRun(outcomes) ==
    IF Len(outcomes) <= 1 THEN Len(outcomes)
    ELSE IF outcomes[Len(outcomes)] # outcomes[Len(outcomes) - 1] THEN 1
    ELSE 1 + CurrentRun(SubSeq(outcomes, 1, Len(outcomes) - 1))

StreaksExclusive(e) ==
    Len(OutcomesOf(e)) > 0
    => /\ (e.consecutive_correct = 0) # (e.consecutive_incorrect = 0)
       /\ IF OutcomesOf(e)[Len(OutcomesOf(e))]
          THEN e.consecutive_correct = CurrentRun(OutcomesOf(e)) /\ e.consecutive_incorrect = 0
          ELSE e.consecutive_incorrect = CurrentRun(OutcomesOf(e)) /\ e.consecutive_correct = 0

\* C24: after every update_difficulty call, made directly or by submit_answer,
\* exactly one of consecutive_correct and consecutive_incorrect is non-zero: the
\* counter of the latest outcome is the length of the current run of answers of
\* that outcome and the other is 0.
OneStreakCounts ==
    /\ engine # None => StreaksExclusive(The(engine))
    /\ difficulty_engine # None => StreaksExclusive(The(difficulty_engine))

\* a run of correct answers was broken by a wrong one and a new run is two long
RunStartedAgain ==
    /\ engine # None
    /\ The(engine).consecutive_correct = 2
    /\ Len(OutcomesOf(The(engine))) >= 6
    /\ ~OutcomesOf(The(engine))[Len(OutcomesOf(The(engine))) - 2]

\* the last n entries of s, in order
LastN(s, n) == SubSeq(s, Max(1, Len(s) - n + 1), Len(s))

\* The histories of the engine e and the quality data `data` of a session against
\* `log`, the response_history of its domain, which keeps every answer.
HistoriesFollow(e, data, log) ==
    LET outcomes == [i \in 1..Len(log) |-> log[i].is_correct]
        times == [i \in 1..Len(log) |-> log[i].response_time]
        pairs == e.confidence_engine.calibration_engine.confidence_accuracy_pairs
        confidences == [i \in 1..Len(pairs) |-> pairs[i][1]]
    IN /\ Len(e.recent_performance) <= PerformanceHistorySize
       /\ Len(e.recent_response_times) = Len(e.recent_performance)
       /\ e.recent_performance = LastN(outcomes, PerformanceHistorySize)
       /\ e.recent_response_times = LastN(times, PerformanceHistorySize)
       /\ Len(pairs) <= CalibrationHistorySize
       /\ [i \in 1..Len(pairs) |-> pairs[i][2]] = LastN(outcomes, CalibrationHistorySize)
       /\ Len(e.confidence_engine.confidence_history) <= CorrelationHistorySize
       /\ Len(e.confidence_engine.accuracy_history)
              = Len(e.confidence_engine.confidence_history)
       /\ e.confidence_engine.accuracy_history
              = [i \in 1..Min(Len(log), CorrelationHistorySize) |->
                    Float(LastN(outcomes, CorrelationHistorySize)[i])]
       /\ e.confidence_engine.confidence_history = LastN(confidences, CorrelationHistorySize)
       /\ Len(data) <= QualityHistorySize
       /\ [i \in 1..Len(data) |-> data[i][2]] = LastN(outcomes, QualityHistorySize)
       /\ [i \in 1..Len(data) |-> data[i][1]] = LastN(confidences, QualityHistorySize)

\* C25: every rolling history is a bounded FIFO. The window of outcomes and
\* response times holds at most 10 entries, the calibration history at most 100,
\* the correlation histories at most 50 and the quality history at most its
\* capacity; each holds exactly the most recent answers in arrival order (the
\* newest confidence being the one of the last answer), and the paired lists have
\* equal lengths.
HistoriesAreBoundedFifo ==
    (current_domain_assessment # None /\ difficulty_engine # None /\ confidence_metrics # None)
    => /\ HistoriesFollow(The(difficulty_engine),
                          The(confidence_metrics).confidence_accuracy_data,
                          domain_assessments[The(current_domain_assessment)].response_history)
       /\ (last.op = "submit_answer" /\ last.system_confidence # None)
          => The(difficulty_engine).confidence_engine.confidence_history[
                 Len(The(difficulty_engine).confidence_engine.confidence_history)]
                 = The(last.system_confidence)

\* every history has dropped the first answer, the only wrong one
OldestEvicted ==
    /\ current_domain_assessment # None
    /\ difficulty_engine # None
    /\ Len(domain_assessments[The(current_domain_assessment)].response_history)
           > CalibrationHistorySize
    /\ ~domain_assessments[The(current_domain_assessment)].response_history[1].is_correct
    /\ \A i \in 1..Len(The(confidence_metrics).confidence_accuracy_data) :
           The(confidence_metrics).confidence_accuracy_data[i][2]
    /\ CurrentRun(OutcomesOf(The(difficulty_engine))) = CalibrationHistorySize

\* Histories of the length of `data` to try get_confidence_quality_score on: data
\* itself, and data with every confidence put to 0.0, to 1.0 or mirrored, and with
\* the outcomes kept, negated or alternating.
QualityHistories(data) ==
    {[i \in 1..Len(data) |->
         <<IF c = "kept" THEN data[i][1]
           ELSE IF c = "mirrored" THEN 20 - data[i][1]
           ELSE IF c = "zero" THEN 0
           ELSE 20,
           IF o = "kept" THEN data[i][2]
           ELSE IF o = "negated" THEN ~data[i][2]
           ELSE i % 2 = 0>>] :
       c \in {"kept", "mirrored", "zero", "one"}, o \in {"kept", "negated", "alternating"}}

\* C26: get_confidence_quality_score returns exactly 0.5 while fewer than 10 data
\* points have been added, and a value within [0,1] for every history of
\* confidences in [0,1]: for the data of the session, and for the histories made
\* from it.
QualityScoreInRange ==
    confidence_metrics # None
    => \A history \in QualityHistories(The(confidence_metrics).confidence_accuracy_data) :
           /\ InRange(0, S, get_confidence_quality_score(history))
           /\ Len(history) < 10 => get_confidence_quality_score(history) = S \div 2

\* with ten or more data points the score is computed, and is not the default
QualityScoreComputed ==
    /\ confidence_metrics # None
    /\ Len(The(confidence_metrics).confidence_accuracy_data) >= 10
    /\ get_confidence_quality_score(The(confidence_metrics).confidence_accuracy_data)
           \notin {0, S \div 2, S}
    /\ domain_assessments[The(current_domain_assessment)].confidence_score
           = get_confidence_quality_score(The(confidence_metrics).confidence_accuracy_data)

\* the response times calculate_system_confidence is tried on in every state: none,
\* and the times of the answers
SystemConfidenceTimes == {0} \cup Times \cup SteadyTimes

SystemConfidenceInRange(e) ==
    \A is_correct \in BOOLEAN, response_time \in SystemConfidenceTimes :
        InRange(2, 18, calculate_system_confidence(e, is_correct, response_time))

\* C27: calculate_system_confidence returns a value within [0.1, 0.9] for every
\* engine state and input, and the call changes nothing of the engine: difficulty,
\* windows, streak counters and histories are as before.
SystemConfidenceReadsOnly ==
    [][/\ engine' # None => SystemConfidenceInRange(The(engine'))
       /\ difficulty_engine' # None => SystemConfidenceInRange(The(difficulty_engine'))
       /\ (last'.op = "calculate_system_confidence")
          => /\ InRange(2, 18, The(last'.returns))
             /\ UNCHANGED ProgState
       /\ (last'.op = "submit_answer" /\ last'.system_confidence # None)
          => InRange(2, 18, The(last'.system_confidence))]_vars

\* asked on a run of fast correct answers, where the terms add up to more than 0.9
SystemConfidenceCapped ==
    /\ last.op = "calculate_system_confidence"
    /\ last.is_correct
    /\ last.returns = Some(18)
    /\ The(engine).consecutive_correct >= 3
    /\ The(engine).current_difficulty < 70 * S

\* The adjustment of an update of the engine e for a given base step: lines 327-337
\* on the confidence impact, the time impact and the stability factor of that call.
StepWith(base_adjustment, e, is_correct, response_time, confidence) ==
    Clamp(0 - MaxDifficultyChange * S, MaxDifficultyChange * S,
          MulDiv(base_adjustment
                 + calculate_confidence_impact(e.confidence_engine, confidence, is_correct,
                                               response_time, Trunc(e.current_difficulty)).returns
                 + calculate_time_impact(e, response_time, is_correct),
                 calculate_stability_factor(record_outcome(e, is_correct, response_time)),
                 10))

\* the base step of the answer that makes the current run `run` answers long
BaseStep(run, is_correct) ==
    LET step == IF is_correct THEN 5 * S ELSE 0 - 5 * S
    IN IF run >= 3 THEN MulDiv(step, 12, 10) ELSE step

\* C28: the streak counters are updated before the step is computed: the base step
\* of +5 or -5 is multiplied by 1.2 exactly for the third and every later answer of a
\* run of answers of one outcome, and for neither of the first two answers after a
\* change of outcome; in a direct update and in submit_answer.
StreakAmplifiesFromThird ==
    [][/\ (last'.op = "update_difficulty" /\ last'.raised = "None")
          => last'.adjustment
                 = StepWith(BaseStep(CurrentRun(OutcomesOf(The(engine'))), last'.is_correct),
                            The(engine), last'.is_correct, The(last'.response_time),
                            The(last'.confidence))
       /\ (last'.op = "submit_answer" /\ last'.result = "ok")
          => last'.adjustment
                 = StepWith(BaseStep(CurrentRun(OutcomesOf(The(difficulty_engine'))),
                                     last'.is_correct),
                            The(difficulty_engine), last'.is_correct,
                            The(last'.response_time), The(last'.system_confidence))]_vars

\* the third correct answer after a wrong one, the first of the new run to be amplified
ThirdOfNewRun ==
    /\ last.op = "update_difficulty"
    /\ last.raised = "None"
    /\ last.is_correct
    /\ CurrentRun(OutcomesOf(The(engine))) = 3
    /\ Len(OutcomesOf(The(engine))) > 3

\* C29: every request generate_question sends to the generator, from a direct call
\* or from submit_answer, carries an integer difficulty within 1..100 that is the
\* engine's current difficulty with its fraction cut off; for a domain started at
\* any difficulty within [1,100] and after any answers.
RequestCarriesDifficulty ==
    (last.generator_calls > 0)
    => /\ last.request # None
       /\ The(last.request) \in MinDifficulty..MaxDifficulty
       /\ The(last.request) * S <= The(difficulty_engine).current_difficulty
       /\ The(difficulty_engine).current_difficulty < (The(last.request) + 1) * S
       /\ (last.next_question # None)
          => The(last.next_question).difficulty_level = The(last.request)

\* a question was asked for at a difficulty that an answer had left between two
\* integers, in its upper half
RequestedBetweenIntegers ==
    /\ last.generator_calls > 0
    /\ last.request # None
    /\ budget.answers > 0
    /\ The(difficulty_engine).current_difficulty % S >= S \div 2

\* C30: domain state is isolated. A submit_answer, or a start_domain_assessment of
\* either manager, for one domain leaves every field of every other
\* DomainAssessment of the session as it was: status, counters, history, tags,
\* difficulty, average time and confidence score.
OtherDomainsUntouched ==
    [][/\ (last'.op = "submit_answer")
          => \A i \in Domains :
                 (current_domain_assessment = None \/ i # The(current_domain_assessment))
                 => domain_assessments'[i] = domain_assessments[i]
       /\ (last'.op \in StartCalls)
          => \A i \in Domains :
                 i # The(last'.domain) => domain_assessments'[i] = domain_assessments[i]]_vars

\* the second domain was answered in while the first, left in progress, kept the
\* answer it had
AnsweredBesideOpenDomain ==
    /\ last.op = "submit_answer"
    /\ last.domain = Some(1)
    /\ domain_assessments[1].questions_attempted > 0
    /\ domain_assessments[0].questions_attempted > 0
    /\ domain_assessments[0].status = IN_PROGRESS

\* C31: the confidence argument of submit_answer does not reach the controller.
\* Whatever confidences the user declared, the engine (its difficulty, windows,
\* counters and histories), the quality data and score, the progress and the status
\* are at every step those of the run replayed from the outcomes and response times
\* alone, so two runs that differ only in the declared confidences agree on them;
\* the declared confidence is kept in QuestionResponse.confidence_level.
DeclaredConfidenceUnused ==
    /\ (current_domain_assessment # None /\ difficulty_engine # None
        /\ confidence_metrics # None)
       => LET da == domain_assessments[The(current_domain_assessment)]
          IN \E run \in {Replay(domain_list[The(current_domain_assessment)],
                                 da.response_history, Len(da.response_history))} :
                /\ The(difficulty_engine) = run.difficulty_engine
                /\ The(confidence_metrics).confidence_accuracy_data = run.data
                /\ get_confidence_quality_score(
                       The(confidence_metrics).confidence_accuracy_data)
                       = get_confidence_quality_score(run.data)
                /\ domain_progress = run.domain_progress
                /\ da.status \in {run.status} \cup TerminalStatuses
    /\ (last.op = "submit_answer" /\ last.domain # None)
       => LET history == domain_assessments[The(last.domain)].response_history
          IN history[Len(history)].confidence_level = The(last.confidence)

\* a run of five answers or more in which the user declared two different confidences
ConfidencesDiffer ==
    /\ last.op = "submit_answer"
    /\ last.domain # None
    /\ LET history == domain_assessments[The(last.domain)].response_history
       IN /\ Len(history) >= 5
          /\ \E i, j \in 1..Len(history) :
                 history[i].confidence_level # history[j].confidence_level

\* C32: after any start_domain_assessment and submit_answer calls on a domain,
\* len(response_history) = questions_attempted, questions_correct is the number of
\* history entries with is_correct true, and the question_id values of the history
\* are pairwise distinct.
HistoryMatchesCounters ==
    \A d \in Domains :
        LET da == domain_assessments[d]
        IN /\ Len(da.response_history) = da.questions_attempted
           /\ da.questions_correct
                  = Cardinality({i \in 1..Len(da.response_history) :
                                     da.response_history[i].is_correct})
           /\ \A i, j \in 1..Len(da.response_history) :
                  i # j => da.response_history[i].question_id
                               # da.response_history[j].question_id

\* a domain answered wrongly, started again and then answered rightly
AnsweredAcrossRestart ==
    /\ last.op = "submit_answer"
    /\ last.domain # None
    /\ last.is_correct
    /\ budget.starts = 2
    /\ domain_assessments[The(last.domain)].questions_attempted = 2
    /\ domain_assessments[The(last.domain)].questions_correct = 1
    /\ The(difficulty_engine).recent_performance = <<TRUE>>

\* C33: each generated question receives at most one recorded response: once
\* an answer to the question the manager holds has been recorded, a further
\* submit_answer is rejected (an error result, nothing recorded) until a new
\* question has been generated, whether the domain was completed, the next
\* question could not be generated, or another domain was started meanwhile.
OneResponsePerQuestion ==
    [][(last'.op = "submit_answer" /\ budget.responses > 0)
          => (last'.result = "error" /\ UNCHANGED ProgState)]_vars

\* C34: in every state reached through AssessmentFlowManager.start_domain_assessment
\* and the operations of QuestionFlowManager, at most one domain of the session
\* has status IN_PROGRESS.
AtMostOneInProgress ==
    Cardinality({i \in Domains : domain_assessments[i].status = IN_PROGRESS}) <= 1

\* ---------------------------------------------------------------- termination

\* One session answered until its progress is full: a run of answers of one kind
\* (right or wrong, after 5 or 120 seconds) that changes its kind at most
\* MaxLiveChanges times, and no more than MaxLiveAnswers answers in all.

MaxLiveAnswers == 100

MaxLiveChanges == 1

LiveTimes == {SetMin(Times), SetMax(Times)}

LiveCost(da, answer_index, elapsed) ==
    IF Len(da.response_history) = 0 THEN 0
    ELSE LET previous == da.response_history[Len(da.response_history)]
         IN IF /\ previous.is_correct = (answer_index = DefaultQuestion.correct_answer_index)
               /\ previous.response_time = elapsed
            THEN 0 ELSE 1

\* a question is open, the progress is not full and the bound allows an answer
CanSubmit ==
    /\ ~NoActiveQuestion
    /\ domain_progress < 100 * S
    /\ budget.answers < MaxLiveAnswers

NextLive ==
    \/ budget.starts = 0 /\ QStart(0)
    \/ ~NoSession /\ current_question = None /\ Generate(DefaultQuestion)
    \/ \E answer_index \in LongAnswerIndices, elapsed \in LiveTimes :
           /\ CanSubmit
           /\ budget.deviations + LiveCost(domain_assessments[0], answer_index, elapsed)
                  <= MaxLiveChanges
           /\ Submit(answer_index, SetMax(Confidences), elapsed, DefaultQuestion,
                     LiveCost(domain_assessments[0], answer_index, elapsed))
           /\ UNCHANGED assessment_app_instance

\* one more submit_answer counted: in NextLive the steps that count an answer are
\* the submit_answer steps, and one is possible in every state of CanSubmit (the
\* answer of the kind of the one before costs nothing)
Submitted ==
    /\ CanSubmit
    /\ budget' \in {[budget EXCEPT !.answers = @ + 1, !.deviations = d, !.responses = r] :
                       d \in 0..MaxLiveChanges, r \in 0..MaxLiveAnswers}

\* the user goes on answering: submit_answer is called again as long as it can be
SpecLive == InitCold /\ [][NextLive]_vars /\ WF_budget(Submitted)

\* C35: every domain assessment terminates: whatever answers are submitted (any
\* mix of right and wrong, any response times), once a question is open and
\* submit_answer keeps being called, domain_progress reaches 100 after finitely
\* many submissions.
AssessmentTerminates == (~NoActiveQuestion) ~> (domain_progress >= 100 * S)

\* a wrong answer given right after three correct ones earned no progress, and the
\* session went on to 100%
StalledOnceThenFinished ==
    /\ domain_progress >= 100 * S
    /\ \E k \in 4..Len(domain_assessments[0].response_history) :
           LET h == domain_assessments[0].response_history
           IN /\ ~h[k].is_correct
              /\ \A j \in (k - 3)..(k - 1) : h[j].is_correct

\* C36: in the API application, after any sequence of start_domain_assessment and
\* submit_answer calls (the call that completes a domain included),
\* session.total_correct <= session.total_questions, total_questions is the sum of
\* questions_attempted over the session's domains and total_correct the sum of
\* questions_correct.
TotalsMatchCounters ==
    /\ assessment_app_instance.total_correct <= assessment_app_instance.total_questions
    /\ assessment_app_instance.total_questions
           = SumSeq([i \in 1..NumDomains |-> domain_assessments[i - 1].questions_attempted])
    /\ assessment_app_instance.total_correct
           = SumSeq([i \in 1..NumDomains |-> domain_assessments[i - 1].questions_correct])

\* C37: the two progress reports agree in every reachable session state: the
\* application's completed_domains is the completed count of
\* AssessmentFlowManager.get_assessment_progress, the number of domains in a
\* terminal status, so that is_assessment_complete is true exactly when
\* completed_domains is the number of domains.
ProgressReportsAgree ==
    /\ completed_domains = get_assessment_progress
    /\ get_assessment_progress
           = Cardinality({i \in Domains : domain_assessments[i].status \in TerminalStatuses})
    /\ is_assessment_complete <=> completed_domains = NumDomains

\* C38: in the level flow a new session starts with level 0 UNLOCKED and every
\* other level LOCKED; complete_level(i, report) records the report's final status
\* for level i and unlocks level i+1 exactly when that status is PASSED and i+1
\* exists, so that a level becomes accessible (can_access_level true) only after
\* its predecessor was completed as PASSED; complete_level returns True exactly
\* when no level is LOCKED or UNLOCKED.
LevelsUnlockInSequence ==
    [][/\ (last'.op = "start_new_learning_session")
          => \A i \in Levels :
                 The(learning_session').level_statuses[i]
                     = (IF i = 0 THEN UNLOCKED ELSE LOCKED)
       /\ (last'.op = "complete_level" /\ last'.raised = "None")
          => LET i == The(last'.domain)
                 before == The(learning_session).level_statuses
                 after == The(learning_session').level_statuses
                 unlocks == last'.domain_status = PASSED /\ i + 1 \in Levels
             IN /\ after[i] = last'.domain_status
                /\ \A k \in Levels \ {i} :
                       after[k] = (IF unlocks /\ k = i + 1 THEN UNLOCKED ELSE before[k])
                /\ (last'.result = "True")
                       <=> \A k \in Levels : after[k] \notin {LOCKED, UNLOCKED}
       /\ \A i \in Levels \ {0} :
              (learning_session # None /\ ~can_access_level(i) /\ can_access_level(i)')
                  => /\ last'.op = "complete_level"
                     /\ last'.domain = Some(i - 1)
                     /\ last'.domain_status = PASSED]_vars

\* C39: in the level flow no sequence of complete_level calls moves a level that
\* is already PASSED or FAILED back to UNLOCKED, and complete_level never records
\* a result for a level that is still LOCKED.
CompletedLevelsStay ==
    [][(last'.op = "complete_level" /\ last'.raised = "None")
          => /\ \A i \in Levels :
                    The(learning_session).level_statuses[i] \in {PASSED, FAILED}
                        => The(learning_session').level_statuses[i] # UNLOCKED
             /\ last'.status_before # LOCKED]_vars

====
